---- MODULE Spec2Model ----
(***************************************************************************)
(* Model of scout-edge's trend memory: the per-agent persistent trend and  *)
(* context stores (AgentMemory) and the cross-agent consolidation          *)
(* (TrendMemoryManager) of src/src/agents/memory.py.                       *)
(*                                                                         *)
(* A string is a sequence of one-character strings.  A timestamp string    *)
(* has the shape "DD SSSSS": the day number and the second of that day,    *)
(* each zero-padded to a fixed width.  It stands for the code's            *)
(* "%Y-%m-%d %H:%M:%S": a date part, one space, a time part, every field   *)
(* fixed-width and zero-padded when formatted, and leniently parsed (a     *)
(* field may be given without its leading zeros).                          *)
(*                                                                         *)
(* A file is a sequence of chunks, the pieces json.dump hands to write().  *)
(* open(path, 'w') truncates the file to the empty sequence and every      *)
(* write appends a chunk, so a file whose writer has not finished holds a  *)
(* proper prefix of a document.                                            *)
(***************************************************************************)
EXTENDS Integers, Sequences, FiniteSets, TLC

(***************************************************************************)
(* Bounds of the model.                                                    *)
(***************************************************************************)
MaxTrends == 2
MaxTicks == 2
MaxFaults == 1

(***************************************************************************)
(* Program constants.                                                      *)
(***************************************************************************)
SecondsPerDay == 86400
DayWidth == 2
SecWidth == 5

(***************************************************************************)
(* Strings.                                                                *)
(***************************************************************************)
Digits == <<"0", "1", "2", "3", "4", "5", "6", "7", "8", "9">>

IsDigit(c) == \E d \in 1..10 : Digits[d] = c

DigitVal(c) == (CHOOSE d \in 1..10 : Digits[d] = c) - 1

\* The code point of a character: " " < "0" < ... < "9" < "x".
Ord(c) == IF c = " " THEN 32 ELSE IF IsDigit(c) THEN 48 + DigitVal(c) ELSE 120

\* Python's str < str: the first differing character decides, and a proper
\* prefix is smaller.
RECURSIVE StrLess(_, _)
StrLess(a, b) ==
    IF b = <<>> THEN FALSE
    ELSE IF a = <<>> THEN TRUE
    ELSE IF Ord(Head(a)) < Ord(Head(b)) THEN TRUE
    ELSE IF Ord(Head(a)) > Ord(Head(b)) THEN FALSE
    ELSE StrLess(Tail(a), Tail(b))

\* The decimal digits of n, zero-padded to width w.
RECURSIVE Pad(_, _)
Pad(n, w) == IF w = 0 THEN <<>> ELSE Append(Pad(n \div 10, w - 1), Digits[(n % 10) + 1])

\* The value of a string of digits.
RECURSIVE DigitsVal(_)
DigitsVal(s) ==
    IF s = <<>> THEN 0 ELSE 10 * DigitsVal(SubSeq(s, 1, Len(s) - 1)) + DigitVal(s[Len(s)])

\* The length of the longest prefix of s made of digits (of spaces).
RECURSIVE DigitRun(_)
DigitRun(s) == IF s # <<>> /\ IsDigit(Head(s)) THEN 1 + DigitRun(Tail(s)) ELSE 0

RECURSIVE SpaceRun(_)
SpaceRun(s) == IF s # <<>> /\ Head(s) = " " THEN 1 + SpaceRun(Tail(s)) ELSE 0

\* The time at which the program starts: midnight of day 2.
Epoch == 2 * SecondsPerDay

(***************************************************************************)
(* The clock.  datetime.now() is finer than the second strftime keeps: the *)
(* clock counts half seconds and a time is [s |-> seconds, sub |-> 0 or 1].*)
(***************************************************************************)
Time(h) == [s |-> Epoch + h \div 2, sub |-> h % 2]

\* datetime.strftime("%Y-%m-%d %H:%M:%S"): the fraction of a second is dropped.
Strftime(t) ==
    Pad(t.s \div SecondsPerDay, DayWidth) \o <<" ">> \o Pad(t.s % SecondsPerDay, SecWidth)

\* datetime.strptime(str, "%Y-%m-%d %H:%M:%S"): [ok |-> TRUE, t |-> time], or
\* [ok |-> FALSE] where strptime raises ValueError.  A numeric field matches
\* one digit up to its width, the space of the format matches one or more
\* spaces, nothing may remain, and the time of day must be in range.
Strptime(str) ==
    LET nd == DigitRun(str)
        r1 == SubSeq(str, nd + 1, Len(str))
        ns == SpaceRun(r1)
        r2 == SubSeq(r1, ns + 1, Len(r1))
        nt == DigitRun(r2)
        day == DigitsVal(SubSeq(str, 1, nd))
        sec == DigitsVal(r2)
    IN  IF /\ nd \in 1..DayWidth
           /\ ns >= 1
           /\ nt \in 1..SecWidth
           /\ nt = Len(r2)
           /\ sec < SecondsPerDay
        THEN [ok |-> TRUE, t |-> [s |-> day * SecondsPerDay + sec, sub |-> 0]]
        ELSE [ok |-> FALSE]

\* (a - b).days: a timedelta keeps days, seconds and microseconds with the
\* seconds and microseconds non-negative, so days is the floor.
FloorDiv(x, y) == IF x >= 0 THEN x \div y ELSE -((-x + y - 1) \div y)

DeltaDays(a, b) ==
    LET borrow == IF a.sub < b.sub THEN 1 ELSE 0
    IN  FloorDiv(a.s - b.s - borrow, SecondsPerDay)

(***************************************************************************)
(* JSON documents and their serialisation.                                 *)
(*                                                                         *)
(* A trend record is a dict: a record with a payload and, optionally, a    *)
(* timestamp and an agent_id.  A trend store is                            *)
(* [last_updated |-> string, trends |-> sequence of trend records], a      *)
(* context store [last_updated, user_preferences, session_data] whose two  *)
(* mappings give every key of PrefKeys a value or "<missing>".  ListDoc    *)
(* (the document []) and OtherDoc (an object with neither key) are valid   *)
(* JSON of another shape.                                                  *)
(***************************************************************************)
NonSerial == "<set>"

PrefKeys == {"k"}

\* A mapping without a key: every key of PrefKeys is missing.
EmptyMap == [k \in PrefKeys |-> "<missing>"]

ListDoc == [json_list |-> TRUE]

OtherDoc == [foo |-> "bar"]

IsDict(doc) == "json_list" \notin DOMAIN doc

\* json.dump(doc, f, indent=2) calls f.write once per chunk of the encoding.
\* A value json cannot encode raises TypeError when the encoder reaches it:
\* the chunks before it, and the start of its own record, are written already.
RECURSIVE DumpItems(_)
DumpItems(recs) ==
    IF recs = <<>> THEN <<[t |-> "]"]>>
    ELSE IF Head(recs).payload = NonSerial THEN <<[t |-> "frag"]>>
    ELSE <<[t |-> "item", r |-> Head(recs)]>> \o DumpItems(Tail(recs))

DumpKey(doc, k) ==
    IF k \notin DOMAIN doc THEN <<>>
    ELSE IF k \in {"last_updated", "consolidated_date"} THEN <<[t |-> "str", k |-> k, s |-> doc[k]]>>
    ELSE IF k = "error" THEN <<[t |-> "err", k |-> k, e |-> doc[k]]>>
    ELSE IF k \in {"lookback_days", "trend_count", "agent_count"}
         THEN <<[t |-> "int", k |-> k, n |-> doc[k]]>>
    ELSE IF k = "trends" THEN <<[t |-> "list", k |-> k]>> \o DumpItems(doc[k])
    ELSE IF k \in {"user_preferences", "session_data"} THEN <<[t |-> "map", k |-> k, m |-> doc[k]]>>
    ELSE <<[t |-> "raw", k |-> k]>>

\* Whether json.dump raises TypeError on doc.
DumpRaises(doc) ==
    /\ "trends" \in DOMAIN doc
    /\ \E j \in 1..Len(doc.trends) : doc.trends[j].payload = NonSerial

\* The chunks json.dump writes for doc, up to the one at which it raises.
Dump(doc) ==
    IF ~IsDict(doc) THEN <<[t |-> "[]"]>>
    ELSE LET body == DumpKey(doc, "last_updated") \o DumpKey(doc, "consolidated_date")
                     \o DumpKey(doc, "error") \o DumpKey(doc, "lookback_days")
                     \o DumpKey(doc, "trend_count") \o DumpKey(doc, "agent_count")
                     \o DumpKey(doc, "trends")
                     \o DumpKey(doc, "user_preferences") \o DumpKey(doc, "session_data")
                     \o DumpKey(doc, "foo")
         IN  <<[t |-> "{"]>> \o body \o (IF DumpRaises(doc) THEN <<>> ELSE <<[t |-> "}"]>>)

\* json.load: the items of a list up to its "]"; [ok, items, rest].
RECURSIVE ParseItems(_)
ParseItems(cs) ==
    IF cs = <<>> THEN [ok |-> FALSE]
    ELSE IF Head(cs).t = "]" THEN [ok |-> TRUE, items |-> <<>>, rest |-> Tail(cs)]
    ELSE IF Head(cs).t = "item"
         THEN LET p == ParseItems(Tail(cs))
              IN  IF p.ok THEN [ok |-> TRUE, items |-> <<Head(cs).r>> \o p.items, rest |-> p.rest]
                  ELSE [ok |-> FALSE]
    ELSE [ok |-> FALSE]

\* json.load: the members of an object up to its "}"; [ok, doc].
RECURSIVE ParseMembers(_)
ParseMembers(cs) ==
    IF cs = <<>> THEN [ok |-> FALSE]
    ELSE LET c == Head(cs)
         IN  IF c.t = "}" THEN [ok |-> Tail(cs) = <<>>, doc |-> [json_end |-> TRUE]]
             ELSE IF c.t = "list"
                  THEN LET p == ParseItems(Tail(cs))
                           q == IF p.ok THEN ParseMembers(p.rest) ELSE [ok |-> FALSE]
                       IN  IF q.ok THEN [ok |-> TRUE, doc |-> (c.k :> p.items) @@ q.doc]
                           ELSE [ok |-> FALSE]
             ELSE IF c.t \in {"str", "map", "raw", "err", "int"}
                  THEN LET q == ParseMembers(Tail(cs))
                           v == IF c.t = "str" THEN c.s ELSE IF c.t = "map" THEN c.m
                                ELSE IF c.t = "err" THEN c.e ELSE IF c.t = "int" THEN c.n
                                ELSE "bar"
                       IN  IF q.ok THEN [ok |-> TRUE, doc |-> (c.k :> v) @@ q.doc]
                           ELSE [ok |-> FALSE]
             ELSE [ok |-> FALSE]

\* json.load of a file's content: [ok |-> TRUE, doc |-> document], or
\* [ok |-> FALSE] where it raises JSONDecodeError (an empty or cut file).
JsonLoad(cs) ==
    IF cs = <<[t |-> "[]"]>> THEN [ok |-> TRUE, doc |-> ListDoc]
    ELSE IF cs # <<>> /\ Head(cs).t = "{"
         THEN LET p == ParseMembers(Tail(cs))
              IN  IF p.ok
                  THEN [ok |-> TRUE,
                        doc |-> [k \in DOMAIN p.doc \ {"json_end"} |-> p.doc[k]]]
                  ELSE [ok |-> FALSE]
    ELSE [ok |-> FALSE]

(***************************************************************************)
(* sorted(xs, key=lambda x: x.get("timestamp", ""), reverse=True) and      *)
(* list.sort with the same arguments: a stable sort, so that of two        *)
(* records with equal keys the one that came first stays first.            *)
(***************************************************************************)
\* x.get("timestamp", "")
TsKey(x) == IF "timestamp" \in DOMAIN x THEN x.timestamp ELSE <<>>

\* A variant of InsertDesc that places x before the records with its key.
RECURSIVE InsertDescFirst(_, _)
InsertDescFirst(xs, x) ==
    IF xs = <<>> THEN <<x>>
    ELSE IF ~StrLess(TsKey(x), TsKey(Head(xs))) THEN <<x>> \o xs
    ELSE <<Head(xs)>> \o InsertDescFirst(Tail(xs), x)

\* x placed into the sorted sequence xs after every record whose key is not
\* smaller than its own.
RECURSIVE InsertDesc(_, _)
InsertDesc(xs, x) ==
    IF xs = <<>> THEN <<x>>
    ELSE IF StrLess(TsKey(Head(xs)), TsKey(x)) THEN <<x>> \o xs
    ELSE <<Head(xs)>> \o InsertDesc(Tail(xs), x)

\* A variant of SortDesc that leaves the records in the order they came in.
SortDescNot(xs) == xs

RECURSIVE SortDesc(_)
SortDesc(xs) ==
    IF xs = <<>> THEN <<>>
    ELSE InsertDesc(SortDesc(SubSeq(xs, 1, Len(xs) - 1)), xs[Len(xs)])

\* xs[:n]: the first n elements, and for n < 0 all but the last -n.
Slice(xs, n) ==
    IF n >= 0 THEN SubSeq(xs, 1, IF n < Len(xs) THEN n ELSE Len(xs))
    ELSE SubSeq(xs, 1, Len(xs) + n)

(***************************************************************************)
(* The file system.  A file name is <<agent id, kind>>; a file is          *)
(* [exists, mode, data]: mode "none" is a path that exists and can be      *)
(* neither read nor written (open raises), mode "ro" one that can be read  *)
(* and not written, data the chunks it holds.                              *)
(***************************************************************************)
Agents == {"a", "b"}

Instances == {"m1", "m2"}

Primary == "m1"

\* The TrendMemoryManager, and all that run.
Manager == "mgr"

Procs == Instances \cup {Manager}

\* Every AgentMemory of the model is opened on agent "a".
AgentOf(i) == "a"

TrendFile(agent) == <<agent, "trends">>

ContextFile(agent) == <<agent, "context">>

\* The memory directory itself, and the file an export writes.
MemoryDir == <<"", "dir">>

OutputFile == <<"out", "export">>

FileNames ==
    {TrendFile(a) : a \in Agents} \cup {ContextFile(a) : a \in Agents}
        \cup {MemoryDir, OutputFile}

NoFile == [exists |-> FALSE, mode |-> "rw", data |-> <<>>]

Unreadable == [exists |-> TRUE, mode |-> "none", data |-> <<>>]

FileOf(chunks) == [exists |-> TRUE, mode |-> "rw", data |-> chunks]

\* A file that can be read and cannot be written.
ReadOnly(chunks) == [exists |-> TRUE, mode |-> "ro", data |-> chunks]

NoDoc == [unset |-> TRUE]

NoFrame == [op |-> "none"]

NoRet == [op |-> "none"]

VARIABLES
    now,      \* the clock, in half seconds
    files,    \* the storage directory: file name -> file
    pc,       \* per AgentMemory and manager: where its current call stands
    trends,   \* per AgentMemory: self.trends
    context,  \* per AgentMemory: self.context
    frame,    \* per AgentMemory and manager: the call in progress
    ret,      \* per AgentMemory and manager: what the last finished call returned
    faults    \* how many writes have failed or been interrupted so far

vars == <<now, files, pc, trends, context, frame, ret, faults>>

\* datetime.now().strftime("%Y-%m-%d %H:%M:%S") at clock h.
Stamp(h) == Strftime(Time(h))

\* A variant of EmptyTrends whose last_updated is not the current time.
EmptyTrendsStale(h) == [last_updated |-> Stamp(0), trends |-> <<>>]

\* {"last_updated": now, "trends": []}
EmptyTrends(h) == [last_updated |-> Stamp(h), trends |-> <<>>]

\* {"last_updated": now, "user_preferences": {}, "session_data": {}}
EmptyContext(h) ==
    [last_updated |-> Stamp(h), user_preferences |-> EmptyMap, session_data |-> EmptyMap]

\* The records a caller hands to add_trend.
InputRecords ==
    { [payload |-> "p"],
      [payload |-> "q", timestamp |-> Stamp(0)],
      [payload |-> "q", timestamp |-> <<"x">>],
      [payload |-> NonSerial] }

\* What the storage directory may hold before the program starts.
InitTrendFiles ==
    { NoFile, Unreadable, FileOf(Dump(ListDoc)), FileOf(Dump(OtherDoc)),
      FileOf(Dump([last_updated |-> Stamp(0), trends |-> <<[payload |-> "p"]>>])) }

\* Time passes.
Tick ==
    /\ now < MaxTicks
    /\ now' = now + 1
    /\ UNCHANGED <<files, pc, trends, context, frame, ret, faults>>

(***************************************************************************)
(* _save_trends and _save_context: open(file, 'w'), json.dump, close.      *)
(* A call that saves leaves the instance at pc "open" with the file and    *)
(* the document in its frame; Return is the rest of the caller once the    *)
(* save has returned ok.  A frame also keeps what the call started from:   *)
(* its argument, the file and self.trends as they were.                    *)
(***************************************************************************)
Frame(i, op, file, doc, arg, keep) ==
    [op |-> op, file |-> file, doc |-> doc, todo |-> <<>>, arg |-> arg, keep |-> keep,
     h |-> now, pre_file |-> files[file], pre_trends |-> trends[i],
     pre_context |-> context[i]]

Result(i, op, val) == [op |-> op, val |-> val, call |-> frame[i]]

\* A variant of ClearedContext that never keeps the preferences.
ClearedContextNoPrefs(ctx, keep, h) == EmptyContext(h)

\* The context clear_memory builds from the context ctx (a dict).
ClearedContext(ctx, keep, h) ==
    [last_updated |-> Stamp(h),
     user_preferences |-> IF keep /\ "user_preferences" \in DOMAIN ctx
                          THEN ctx.user_preferences ELSE EmptyMap,
     session_data |-> EmptyMap]

\* clear_memory after _save_trends (whose result it drops): the context is
\* rebuilt and saved; self.context.get raises on a context that is no dict.
ClearContext(i) ==
    IF frame[i].keep /\ ~IsDict(context[i])
    THEN /\ pc' = [pc EXCEPT ![i] = "idle"]
         /\ ret' = [ret EXCEPT ![i] = Result(i, "clear", FALSE)]
         /\ frame' = [frame EXCEPT ![i] = NoFrame]
         /\ UNCHANGED <<trends, context>>
    ELSE LET ctx == ClearedContext(context[i], frame[i].keep, now)
         IN  /\ context' = [context EXCEPT ![i] = ctx]
             /\ pc' = [pc EXCEPT ![i] = "open"]
             /\ frame' = [frame EXCEPT ![i] =
                              [@ EXCEPT !.op = "clear_context",
                                        !.file = ContextFile(AgentOf(i)),
                                        !.doc = ctx, !.todo = <<>>]]
             /\ UNCHANGED <<trends, ret>>

Return(i, ok) ==
    CASE frame[i].op = "load_trends" ->
            /\ pc' = [pc EXCEPT ![i] = "ctx"]
            /\ frame' = [frame EXCEPT ![i] = NoFrame]
            /\ ret' = [ret EXCEPT ![i] = Result(i, "load", ok)]
            /\ UNCHANGED <<trends, context>>
      [] frame[i].op = "load_context" ->
            /\ pc' = [pc EXCEPT ![i] = "idle"]
            /\ frame' = [frame EXCEPT ![i] = NoFrame]
            /\ ret' = [ret EXCEPT ![i] = Result(i, "init", TRUE)]
            /\ UNCHANGED <<trends, context>>
      [] frame[i].op \in {"add", "pref", "sess"} ->
            /\ pc' = [pc EXCEPT ![i] = "idle"]
            /\ frame' = [frame EXCEPT ![i] = NoFrame]
            /\ ret' = [ret EXCEPT ![i] = Result(i, frame[i].op, ok)]
            /\ UNCHANGED <<trends, context>>
      [] frame[i].op = "clear_trends" -> ClearContext(i)
      [] frame[i].op = "clear_context" ->
            /\ pc' = [pc EXCEPT ![i] = "idle"]
            /\ frame' = [frame EXCEPT ![i] = NoFrame]
            /\ ret' = [ret EXCEPT ![i] = Result(i, "clear", TRUE)]
            /\ UNCHANGED <<trends, context>>

\* open(file, 'w'): the file is created or truncated; a path that cannot be
\* written raises, and the save returns False with the file untouched.
SaveOpen(i) ==
    /\ pc[i] = "open"
    /\ IF files[frame[i].file].mode # "rw"
       THEN /\ Return(i, FALSE)
            /\ UNCHANGED files
       ELSE /\ files' = [files EXCEPT ![frame[i].file] = FileOf(<<>>)]
            /\ pc' = [pc EXCEPT ![i] = "write"]
            /\ frame' = [frame EXCEPT ![i].todo = Dump(frame[i].doc)]
            /\ UNCHANGED <<trends, context, ret>>
    /\ UNCHANGED <<now, faults>>

\* json.dump writes its next chunk; after the last one either the encoder
\* raises TypeError (the save returns False) or the file is closed (True).
WriteChunk(i) ==
    /\ pc[i] = "write"
    /\ frame[i].todo # <<>>
    /\ files' = [files EXCEPT ![frame[i].file].data = Append(@, Head(frame[i].todo))]
    /\ IF Tail(frame[i].todo) = <<>>
       THEN Return(i, ~DumpRaises(frame[i].doc))
       ELSE /\ frame' = [frame EXCEPT ![i].todo = Tail(@)]
            /\ UNCHANGED <<pc, trends, context, ret>>
    /\ UNCHANGED <<now, faults>>

\* A write raises OSError (the disk is full): the save returns False and the
\* file keeps what was written so far.
WriteFail(i) ==
    /\ pc[i] = "write"
    /\ faults < MaxFaults
    /\ faults' = faults + 1
    /\ Return(i, FALSE)
    /\ UNCHANGED <<now, files>>

\* The process is interrupted while it saves; what it held in memory is lost.
Crash(i) ==
    /\ pc[i] \in {"open", "write"}
    /\ faults < MaxFaults
    /\ faults' = faults + 1
    /\ pc' = [pc EXCEPT ![i] = "none"]
    /\ trends' = [trends EXCEPT ![i] = NoDoc]
    /\ context' = [context EXCEPT ![i] = NoDoc]
    /\ frame' = [frame EXCEPT ![i] = NoFrame]
    /\ ret' = [ret EXCEPT ![i] = Result(i, "interrupted", FALSE)]
    /\ UNCHANGED <<now, files>>

(***************************************************************************)
(* AgentMemory                                                             *)
(***************************************************************************)
\* __init__, first half: self.trends = self._load_trends()
LoadTrends(i) ==
    /\ pc[i] = "none"
    /\ LET file == TrendFile(AgentOf(i))
           f == files[file]
           p == JsonLoad(f.data)
           doc == IF f.exists /\ f.mode # "none" /\ p.ok THEN p.doc ELSE EmptyTrends(now)
       IN  /\ trends' = [trends EXCEPT ![i] = doc]
           /\ IF f.exists
              THEN /\ pc' = [pc EXCEPT ![i] = "ctx"]
                   /\ ret' = [ret EXCEPT ![i] =
                                  [op |-> "load", val |-> TRUE,
                                   call |-> Frame(i, "load_trends", file, doc, NoDoc, FALSE)]]
                   /\ UNCHANGED frame
              ELSE /\ pc' = [pc EXCEPT ![i] = "open"]
                   /\ frame' = [frame EXCEPT ![i] =
                                   Frame(i, "load_trends", file, doc, NoDoc, FALSE)]
                   /\ UNCHANGED ret
    /\ UNCHANGED <<now, files, context, faults>>

\* __init__, second half: self.context = self._load_context()
LoadContext(i) ==
    /\ pc[i] = "ctx"
    /\ LET file == ContextFile(AgentOf(i))
           f == files[file]
           p == JsonLoad(f.data)
       IN  IF f.exists
           THEN /\ context' = [context EXCEPT ![i] =
                                  IF f.mode # "none" /\ p.ok THEN p.doc ELSE EmptyContext(now)]
                /\ pc' = [pc EXCEPT ![i] = "idle"]
                /\ ret' = [ret EXCEPT ![i] = Result(i, "init", TRUE)]
                /\ UNCHANGED frame
           ELSE /\ context' = [context EXCEPT ![i] = EmptyContext(now)]
                /\ pc' = [pc EXCEPT ![i] = "open"]
                /\ frame' = [frame EXCEPT ![i] =
                                Frame(i, "load_context", file, EmptyContext(now), NoDoc, FALSE)]
                /\ UNCHANGED ret
    /\ UNCHANGED <<now, files, trends, faults>>

\* Whether self.trends["trends"] is there to use.
HasTrends(doc) == IsDict(doc) /\ "trends" \in DOMAIN doc

\* A variant of Stamped that stamps every record, replacing the timestamp
\* the caller gave.
StampedAlways(rec, h) ==
    [k \in DOMAIN rec \cup {"timestamp"} |-> IF k = "timestamp" THEN Stamp(h) ELSE rec[k]]

\* The record add_trend stores: stamped with the clock if it has no timestamp.
Stamped(rec, h) ==
    IF "timestamp" \in DOMAIN rec THEN rec
    ELSE [k \in DOMAIN rec \cup {"timestamp"} |->
             IF k = "timestamp" THEN Stamp(h) ELSE rec[k]]

\* A variant of Appended that does not store a record the store holds already.
AppendedUnique(xs, x) == IF \E j \in 1..Len(xs) : xs[j] = x THEN xs ELSE Append(xs, x)

\* self.trends["trends"].append(trend)
Appended(xs, x) == Append(xs, x)

\* add_trend(rec).  The clock is read for the timestamp and again, d later,
\* for last_updated.
AddTrend(i, rec, d) ==
    /\ pc[i] = "idle"
    /\ now + d <= MaxTicks
    /\ now' = now + d
    /\ IF HasTrends(trends[i])
       THEN /\ Len(trends[i].trends) < MaxTrends
            /\ LET doc == [trends[i] EXCEPT !.trends = Appended(@, Stamped(rec, now)),
                                            !.last_updated = Stamp(now + d)]
               IN  /\ trends' = [trends EXCEPT ![i] = doc]
                   /\ frame' = [frame EXCEPT ![i] =
                                   Frame(i, "add", TrendFile(AgentOf(i)), doc, rec, FALSE)]
            /\ pc' = [pc EXCEPT ![i] = "open"]
            /\ ret' = [ret EXCEPT ![i] = NoRet]
       ELSE /\ ret' = [ret EXCEPT ![i] =
                          [op |-> "add", val |-> FALSE,
                           call |-> Frame(i, "add", TrendFile(AgentOf(i)), trends[i], rec, FALSE)]]
            /\ UNCHANGED <<pc, trends, frame>>
    /\ UNCHANGED <<files, context, faults>>

\* get_recent_trends(n): any exception (self.trends is no store) gives [].
GetRecent(i, n) ==
    /\ pc[i] = "idle"
    /\ ret' = [ret EXCEPT ![i] =
                  [op |-> "recent",
                   val |-> IF HasTrends(trends[i]) THEN Slice(SortDesc(trends[i].trends), n)
                           ELSE <<>>,
                   call |-> Frame(i, "recent", TrendFile(AgentOf(i)), trends[i], n, FALSE)]]
    /\ UNCHANGED <<now, files, pc, trends, context, frame, faults>>

\* get_user_preferences(): self.context.get("user_preferences", {}), which
\* raises AttributeError on a context that is no dict.
GetUserPreferences(i) ==
    /\ pc[i] = "idle"
    /\ ret' = [ret EXCEPT ![i] =
                  [op |-> "prefs",
                   val |-> IF ~IsDict(context[i]) THEN [raised |-> "AttributeError"]
                           ELSE IF "user_preferences" \in DOMAIN context[i]
                                THEN [raised |-> "", prefs |-> context[i].user_preferences]
                           ELSE [raised |-> "", prefs |-> EmptyMap],
                   call |-> Frame(i, "prefs", ContextFile(AgentOf(i)), context[i], NoDoc, FALSE)]]
    /\ UNCHANGED <<now, files, pc, trends, context, frame, faults>>

\* update_user_preference(k, v) and update_session_data(k, v)
UpdateContext(i, op, field, k, v) ==
    /\ pc[i] = "idle"
    /\ IF IsDict(context[i]) /\ field \in DOMAIN context[i]
       THEN LET doc == [context[i] EXCEPT ![field][k] = v, !.last_updated = Stamp(now)]
            IN  /\ context' = [context EXCEPT ![i] = doc]
                /\ frame' = [frame EXCEPT ![i] =
                                Frame(i, op, ContextFile(AgentOf(i)), doc, NoDoc, FALSE)]
                /\ pc' = [pc EXCEPT ![i] = "open"]
                /\ ret' = [ret EXCEPT ![i] = NoRet]
       ELSE /\ ret' = [ret EXCEPT ![i] =
                          [op |-> op, val |-> FALSE,
                           call |-> Frame(i, op, ContextFile(AgentOf(i)), context[i], NoDoc, FALSE)]]
            /\ UNCHANGED <<pc, context, frame>>
    /\ UNCHANGED <<now, files, trends, faults>>

UpdateUserPreference(i, k, v) == UpdateContext(i, "pref", "user_preferences", k, v)

UpdateSessionData(i, k, v) == UpdateContext(i, "sess", "session_data", k, v)

\* clear_memory(keep_preferences): self.trends is replaced and saved, then
\* the context (ClearContext).
ClearMemory(i, keep) ==
    /\ pc[i] = "idle"
    /\ trends' = [trends EXCEPT ![i] = EmptyTrends(now)]
    /\ frame' = [frame EXCEPT ![i] =
                    Frame(i, "clear_trends", TrendFile(AgentOf(i)), EmptyTrends(now), NoDoc, keep)]
    /\ pc' = [pc EXCEPT ![i] = "open"]
    /\ ret' = [ret EXCEPT ![i] = NoRet]
    /\ UNCHANGED <<now, files, context, faults>>

(***************************************************************************)
(* The trend store of one agent: opened, added to, cleared, its saves      *)
(* failing or being interrupted at any write.                              *)
(***************************************************************************)
ValidContext ==
    [last_updated |-> Stamp(0), user_preferences |-> [k \in PrefKeys |-> "v"],
     session_data |-> [k \in PrefKeys |-> "v"]]

\* The program starts with the files of agent "a" drawn from tfs and cfs and
\* the trend file of agent "b" from bfs, and no AgentMemory constructed.
StartAll(tfs, cfs, bfs) ==
    /\ now = 0
    /\ \E tf \in tfs, cf \in cfs, bf \in bfs :
          files = [n \in FileNames |->
                      IF n = TrendFile("a") THEN tf
                      ELSE IF n = ContextFile("a") THEN cf
                      ELSE IF n = TrendFile("b") THEN bf
                      ELSE IF n = MemoryDir THEN FileOf(<<>>) ELSE NoFile]
    /\ pc = [i \in Procs |-> IF i = Manager THEN "idle" ELSE "none"]
    /\ trends = [i \in Instances |-> NoDoc]
    /\ context = [i \in Instances |-> NoDoc]
    /\ frame = [i \in Procs |-> NoFrame]
    /\ ret = [i \in Procs |-> NoRet]
    /\ faults = 0

Start(tfs, cfs) == StartAll(tfs, cfs, {NoFile})

Init == Start(InitTrendFiles, {FileOf(Dump(ValidContext))})

Saving(i) ==
    \/ SaveOpen(i)
    \/ WriteChunk(i)
    \/ WriteFail(i)
    \/ Crash(i)

\* The calls of one instance on its trend store, and the clock.
Next ==
    \/ Tick
    \/ LoadTrends(Primary)
    \/ LoadContext(Primary)
    \/ Saving(Primary)
    \/ \E rec \in InputRecords, d \in {0, 1} : AddTrend(Primary, rec, d)

Spec == Init /\ [][Next]_vars

(***************************************************************************)
(* Loading twice: two AgentMemory are opened on the same agent, the second *)
(* once the first has loaded, and nothing else writes the store.           *)
(***************************************************************************)
\* No other instance is in the middle of a call.
Quiet(i) == \A j \in Instances \ {i} : pc[j] \in {"none", "ctx", "idle"}

\* A trend file cut short: what an interrupted save leaves.
CutFile ==
    FileOf(SubSeq(Dump([last_updated |-> Stamp(0), trends |-> <<[payload |-> "p"]>>]), 1, 3))

InitLoad == Start(InitTrendFiles \cup {CutFile}, {FileOf(Dump(ValidContext))})

NextLoad ==
    \/ Tick
    \/ \E i \in Instances :
          \/ Quiet(i) /\ LoadTrends(i)
          \/ Saving(i)

SpecLoad == InitLoad /\ [][NextLoad]_vars

(***************************************************************************)
(* Reading the most recent trends of a store that is opened and added to.  *)
(***************************************************************************)
\* A store whose first and last records have the same timestamp, with a
\* record of another timestamp between them.
TiedStore ==
    [last_updated |-> Stamp(0),
     trends |-> <<[payload |-> "p", timestamp |-> Stamp(0)],
                  [payload |-> "q", timestamp |-> <<"x">>],
                  [payload |-> "q", timestamp |-> Stamp(0)]>>]

InitRecent ==
    Start({NoFile, FileOf(Dump(TiedStore)),
           FileOf(Dump([last_updated |-> Stamp(0), trends |-> <<[payload |-> "p"]>>]))},
          {FileOf(Dump(ValidContext))})

NextRecent ==
    \/ Tick
    \/ LoadTrends(Primary)
    \/ LoadContext(Primary)
    \/ SaveOpen(Primary)
    \/ WriteChunk(Primary)
    \/ \E rec \in InputRecords, d \in {0, 1} : AddTrend(Primary, rec, d)
    \/ \E n \in {-1, 0, 1, 2, 3, 4} : GetRecent(Primary, n)

SpecRecent == InitRecent /\ [][NextRecent]_vars

(***************************************************************************)
(* Clearing the memory of an agent whose preferences and session data are  *)
(* updated and whose trends are added to.                                  *)
(***************************************************************************)
InitClear ==
    Start({NoFile, FileOf(Dump([last_updated |-> Stamp(0), trends |-> <<[payload |-> "p"]>>]))},
          {NoFile, FileOf(Dump(ListDoc)),
           FileOf(Dump([last_updated |-> Stamp(0),
                        user_preferences |-> [k \in PrefKeys |-> "v"],
                        session_data |-> [k \in PrefKeys |-> "v"]]))})

NextClear ==
    \/ LoadTrends(Primary)
    \/ LoadContext(Primary)
    \/ SaveOpen(Primary)
    \/ WriteChunk(Primary)
    \/ WriteFail(Primary)
    \/ AddTrend(Primary, [payload |-> "q", timestamp |-> Stamp(0)], 0)
    \/ \E k \in PrefKeys, v \in {"v", "w"} : UpdateUserPreference(Primary, k, v)
    \/ \E k \in PrefKeys, v \in {"v", "w"} : UpdateSessionData(Primary, k, v)
    \/ GetUserPreferences(Primary)
    \/ \E keep \in BOOLEAN : ClearMemory(Primary, keep)

SpecClear == InitClear /\ [][NextClear]_vars

(***************************************************************************)
(* TrendMemoryManager: consolidate_trends reads the trend file of every    *)
(* agent, one file at a step, while the AgentMemory of agent "a" adds to   *)
(* its store and clears it; the store of agent "b" has no writer.          *)
(***************************************************************************)
\* get_all_agent_ids(): the agents with a file "<agent>_trends.json" in the
\* memory directory; a directory that is missing or cannot be listed gives
\* no file (an exception of the listing is caught and gives [] too).
GetAllAgentIds ==
    IF files[MemoryDir].exists /\ files[MemoryDir].mode # "none"
    THEN {a \in Agents : files[TrendFile(a)].exists}
    ELSE {}

\* A variant of Tagged that gives every record the id of agent "a".
TaggedFirst(rec, agent) ==
    [k \in DOMAIN rec \cup {"agent_id"} |-> IF k = "agent_id" THEN "a" ELSE rec[k]]

\* trend["agent_id"] = agent_id
Tagged(rec, agent) ==
    [k \in DOMAIN rec \cup {"agent_id"} |-> IF k = "agent_id" THEN agent ELSE rec[k]]

\* A variant of Retained that keeps every record whose timestamp parses.
RetainedAnyAge(rec, h, days) == Strptime(TsKey(rec)).ok

\* The filter of consolidate_trends: the timestamp parses and days_diff is
\* at most days.
Retained(rec, h, days) ==
    LET p == Strptime(TsKey(rec))
    IN  p.ok /\ DeltaDays(Time(h), p.t) <= days

RECURSIVE FilterTrends(_, _, _, _)
FilterTrends(xs, agent, h, days) ==
    IF xs = <<>> THEN <<>>
    ELSE (IF Retained(Head(xs), h, days) THEN <<Tagged(Head(xs), agent)>> ELSE <<>>)
             \o FilterTrends(Tail(xs), agent, h, days)

LookbackDays == {0, 1}

\* consolidate_trends(days) up to its loop, called by op: the ids are listed
\* and the clock is read.  The frame keeps the order the ids are taken in
\* and, for every agent, the file the loop read.
BeginConsolidate(op, days) ==
    /\ pc[Manager] = "idle"
    \* list(agent_ids): the ids in any order
    /\ \E order \in {f \in [1..Cardinality(GetAllAgentIds) -> GetAllAgentIds] :
                         \A k, l \in 1..Cardinality(GetAllAgentIds) : f[k] = f[l] => k = l} :
          frame' = [frame EXCEPT ![Manager] =
                       [op |-> op, days |-> days, h |-> now,
                        agent_ids |-> GetAllAgentIds, todo |-> order, order |-> order,
                        all_trends |-> <<>>, seen |-> [a \in Agents |-> NoFile]]]
    /\ pc' = [pc EXCEPT ![Manager] = "scan"]
    /\ ret' = [ret EXCEPT ![Manager] = NoRet]
    /\ UNCHANGED <<now, files, trends, context, faults>>

\* consolidate_trends(days) called by the user.
ConsolidateTrends(days) == BeginConsolidate("consolidate", days)

\* export_consolidated_trends(output_file, days), which calls
\* consolidate_trends(days) first.
ExportConsolidatedTrends(days) == BeginConsolidate("export", days)

\* consolidate_trends returns report from the frame fr: to the user, or to
\* export_consolidated_trends, which goes on to write it.
ConsolidateReturns(report, fr) ==
    IF fr.op = "export"
    THEN /\ frame' = [frame EXCEPT ![Manager] =
                         [op |-> "export", report |-> report, call |-> fr]]
         /\ pc' = [pc EXCEPT ![Manager] = "dump"]
         /\ UNCHANGED ret
    ELSE /\ ret' = [ret EXCEPT ![Manager] =
                       [op |-> "consolidate", val |-> report, call |-> fr]]
         /\ pc' = [pc EXCEPT ![Manager] = "idle"]
         /\ frame' = [frame EXCEPT ![Manager] = NoFrame]

\* One turn of the loop over agent_ids: the file is opened, parsed and
\* filtered; an error of open, json.load or agent_trends.get ends the call.
ReadAgent ==
    /\ pc[Manager] = "scan"
    /\ frame[Manager].todo # <<>>
    /\ LET agent == Head(frame[Manager].todo)
           f == files[TrendFile(agent)]
           p == JsonLoad(f.data)
           fr == [frame[Manager] EXCEPT !.todo = Tail(@), !.seen[agent] = f]
           e == IF f.mode = "none" THEN "PermissionError"
                ELSE IF ~p.ok THEN "JSONDecodeError"
                ELSE IF ~IsDict(p.doc) THEN "AttributeError"
                ELSE ""
       IN  IF ~f.exists
           THEN /\ frame' = [frame EXCEPT ![Manager] = fr]
                /\ UNCHANGED <<pc, ret>>
           ELSE IF e # ""
           \* the except branch of consolidate_trends
           THEN ConsolidateReturns([consolidated_date |-> Stamp(now), error |-> e,
                                    trends |-> <<>>], fr)
           ELSE /\ frame' = [frame EXCEPT ![Manager] =
                                [fr EXCEPT !.all_trends =
                                     @ \o FilterTrends(IF HasTrends(p.doc) THEN p.doc.trends
                                                       ELSE <<>>,
                                                       agent, fr.h, fr.days)]]
                /\ UNCHANGED <<pc, ret>>
    /\ UNCHANGED <<now, files, trends, context, faults>>

\* After the loop: all_trends.sort(...) and the report.
Report ==
    /\ pc[Manager] = "scan"
    /\ frame[Manager].todo = <<>>
    /\ LET sorted == SortDesc(frame[Manager].all_trends)
       IN  ConsolidateReturns([consolidated_date |-> Stamp(frame[Manager].h),
                               lookback_days |-> frame[Manager].days,
                               trend_count |-> Len(sorted),
                               agent_count |-> Cardinality(frame[Manager].agent_ids),
                               trends |-> sorted],
                              frame[Manager])
    /\ UNCHANGED <<now, files, trends, context, faults>>

\* export_consolidated_trends after consolidate_trends: the report is
\* written to the output file, then the log line reads
\* consolidated['trend_count'], whose KeyError makes the call return False.
ExportWrite ==
    /\ pc[Manager] = "dump"
    /\ files' = [files EXCEPT ![OutputFile] = FileOf(Dump(frame[Manager].report))]
    /\ ret' = [ret EXCEPT ![Manager] =
                   [op |-> "export",
                    val |-> "trend_count" \in DOMAIN frame[Manager].report,
                    report |-> frame[Manager].report,
                    call |-> frame[Manager].call]]
    /\ pc' = [pc EXCEPT ![Manager] = "idle"]
    /\ frame' = [frame EXCEPT ![Manager] = NoFrame]
    /\ UNCHANGED <<now, trends, context, faults>>

\* The store of agent "b": records one day old, two days old, a second
\* short of two days old, with a timestamp that does not parse, and with none.
AgedStore ==
    [last_updated |-> Stamp(0),
     trends |-> <<[payload |-> "p", timestamp |-> Strftime([s |-> Epoch - SecondsPerDay, sub |-> 0])],
                  [payload |-> "q", timestamp |-> Strftime([s |-> 0, sub |-> 0])],
                  [payload |-> "p", timestamp |-> Strftime([s |-> 1, sub |-> 0])],
                  [payload |-> "q", timestamp |-> <<"x">>],
                  [payload |-> "p"]>>]

InitMgr ==
    StartAll({FileOf(Dump([last_updated |-> Stamp(0),
                           trends |-> <<[payload |-> "p", timestamp |-> Stamp(0)]>>]))},
             {FileOf(Dump(ValidContext))},
             {NoFile, FileOf(Dump(AgedStore)), FileOf(Dump(ListDoc)), CutFile, Unreadable})

NextMgr ==
    \/ LoadTrends(Primary)
    \/ LoadContext(Primary)
    \/ SaveOpen(Primary)
    \/ WriteChunk(Primary)
    \/ \E d \in {0, 1} : AddTrend(Primary, [payload |-> "q"], d)
    \/ ClearMemory(Primary, TRUE)
    \/ \E days \in LookbackDays : ConsolidateTrends(days)
    \/ ReadAgent
    \/ Report

SpecMgr == InitMgr /\ [][NextMgr]_vars

(***************************************************************************)
(* Properties of the trend store                                           *)
(***************************************************************************)
\* A file that holds a complete JSON document.
Complete(f) == f.exists /\ f.mode = "rw" /\ JsonLoad(f.data).ok

\* The document the agent's trend file holds.
OnDisk(i) == JsonLoad(files[TrendFile(AgentOf(i))].data).doc

\* C1: the rewrite of the trend file is atomic.  When a save of the store
\* was interrupted, or add_trend's save failed, a trend file that held a
\* complete document before the call still holds exactly that document: it
\* is not left empty, truncated or partially written.
C1_SaveIsAtomic ==
    \A i \in Instances :
        (/\ ret[i].op \in {"interrupted", "add"}
         /\ ~ret[i].val
         /\ ret[i].call.file = TrendFile(AgentOf(i))
         /\ Complete(ret[i].call.pre_file))
            => files[TrendFile(AgentOf(i))] = ret[i].call.pre_file

\* C3: when add_trend returns False, the trend file holds exactly what it
\* held before the call.
C3_FailedAddKeepsFile ==
    \A i \in Instances :
        (ret[i].op = "add" /\ ~ret[i].val)
            => files[TrendFile(AgentOf(i))] = ret[i].call.pre_file

\* An add_trend call that got as far as storing its record has returned.
Added(i) == ret[i].op = "add" /\ HasTrends(ret[i].call.pre_trends)

\* C4: a record added without a timestamp is stored with the clock value
\* read at insertion and is otherwise as given; a record added with a
\* timestamp is stored as given; every record added has a timestamp.
C4_TimestampAtInsertion ==
    \A i \in Instances :
        Added(i) =>
            LET rec == ret[i].call.arg
                \* the record add_trend has just appended to self.trends
                st == trends[i].trends[Len(trends[i].trends)]
            IN  /\ "timestamp" \in DOMAIN st
                /\ st.payload = rec.payload
                /\ DOMAIN st = DOMAIN rec \cup {"timestamp"}
                /\ st.timestamp = IF "timestamp" \in DOMAIN rec THEN rec.timestamp
                                  ELSE Strftime(Time(ret[i].call.h))
                /\ ret[i].val => OnDisk(i).trends[Len(OnDisk(i).trends)] = st

\* C4's case: a record without a timestamp was added after the clock had
\* moved on, and one with a timestamp was added too.
C4_Witness ==
    \E i \in Instances :
        /\ Added(i) /\ ret[i].val
        /\ "timestamp" \notin DOMAIN ret[i].call.arg
        /\ ret[i].call.h >= 2
        /\ Len(trends[i].trends) = 2
        /\ TsKey(trends[i].trends[1]) = <<"x">>

\* C5: a successful add_trend leaves every record that was there in its
\* place and puts the new one last, duplicates included; the length grows by
\* one, and the file then holds the same records as the memory.
C5_AppendOnly ==
    \A i \in Instances :
        (Added(i) /\ ret[i].val) =>
            LET old == ret[i].call.pre_trends.trends
                new == trends[i].trends
            IN  /\ Len(new) = Len(old) + 1
                /\ SubSeq(new, 1, Len(old)) = old
                /\ new[Len(new)].payload = ret[i].call.arg.payload
                /\ Complete(files[TrendFile(AgentOf(i))])
                /\ OnDisk(i).trends = new

\* C5's case: the same record successfully added twice is stored twice.
C5_Witness ==
    \E i \in Instances :
        /\ Added(i) /\ ret[i].val
        /\ Len(trends[i].trends) = 2
        /\ trends[i].trends[1] = trends[i].trends[2]
        /\ OnDisk(i).trends = trends[i].trends

\* C6: after self.trends = self._load_trends(), whatever the file was: an
\* absent file gives the empty store and, the save working, a file that
\* holds it; an unreadable file or one that is not JSON gives the empty
\* default; and the store is usable (self.trends["trends"] is a list).
C6_LoadGivesUsableStore ==
    \A i \in Instances :
        ret[i].op = "load" =>
            LET was == ret[i].call.pre_file
            IN  /\ ~was.exists =>
                    /\ trends[i] = EmptyTrends(ret[i].call.h)
                    /\ ret[i].val => /\ Complete(files[TrendFile(AgentOf(i))])
                                     /\ OnDisk(i) = trends[i]
                /\ (was.exists /\ (was.mode = "none" \/ ~JsonLoad(was.data).ok)) =>
                        trends[i] = EmptyTrends(ret[i].call.h)
                /\ HasTrends(trends[i])

\* self._load_trends() has returned in instance i.
Loaded(i) == pc[i] = "ctx" /\ ret[i].op = "load"

\* C7 as claimed: two loads with no write between them return equal
\* results, whatever the file and however far the clock has moved.
C7_LoadTwiceEqual ==
    \A i, j \in Instances : (Loaded(i) /\ Loaded(j)) => trends[i] = trends[j]

\* C7, amended: two loads with no write between them return the document of
\* the file when the file holds one (a valid file, or an absent one that the
\* first load created), and so equal results; when the file is unreadable or
\* not JSON each returns no trends and, as last_updated, its own clock read.
C7_LoadTwice ==
    \A i, j \in Instances :
        (Loaded(i) /\ Loaded(j)) =>
            LET f == files[TrendFile(AgentOf(i))]
            IN  IF Complete(f)
                THEN trends[i] = OnDisk(i) /\ trends[j] = trends[i]
                ELSE /\ trends[i].trends = <<>> /\ trends[j].trends = <<>>
                     /\ trends[i].last_updated = Strftime(Time(ret[i].call.h))
                     /\ trends[j].last_updated = Strftime(Time(ret[j].call.h))

\* C7's case: two loads of a file that is not JSON, a second apart, and
\* two loads of an absent file, the first of which created it.
C7_Witness ==
    \E i, j \in Instances :
        /\ Loaded(i) /\ Loaded(j) /\ i # j
        /\ ret[i].call.h + 2 <= ret[j].call.h
        /\ ~ret[i].call.pre_file.exists
        /\ trends[i] = trends[j]

\* The one-to-one maps of 1..n onto itself.
Perms(n) == {f \in [1..n -> 1..n] : \A k, l \in 1..n : f[k] = f[l] => k = l}

\* C8: for n >= 0, get_recent_trends(n) returns the first min(n, size)
\* records of the store arranged by non-increasing timestamp string, records
\* of equal timestamp in store order; the store and its file are unchanged.
C8_RecentIsStableSortedPrefix ==
    \A i \in Instances :
        (ret[i].op = "recent" /\ ret[i].call.arg >= 0 /\ HasTrends(trends[i])) =>
            LET xs == trends[i].trends
                n == ret[i].call.arg
            IN  /\ Len(ret[i].val) = IF n < Len(xs) THEN n ELSE Len(xs)
                \* xs taken in the order f is in non-increasing order of
                \* timestamp string, records of equal timestamp in store order
                /\ \E f \in Perms(Len(xs)) :
                      /\ \A k, l \in 1..Len(xs) :
                            k < l => \/ StrLess(TsKey(xs[f[l]]), TsKey(xs[f[k]]))
                                     \/ TsKey(xs[f[l]]) = TsKey(xs[f[k]]) /\ f[k] < f[l]
                      /\ \A k \in 1..Len(ret[i].val) : ret[i].val[k] = xs[f[k]]
                /\ trends[i] = ret[i].call.pre_trends
                /\ files[TrendFile(AgentOf(i))] = ret[i].call.pre_file

\* C8's case: the two most recent of three records, two of which tie, were
\* asked for, and the store is not in that order.
C8_Witness ==
    \E i \in Instances :
        /\ ret[i].op = "recent" /\ ret[i].call.arg = 2
        /\ HasTrends(trends[i]) /\ Len(trends[i].trends) = 3
        /\ ret[i].val[1] # trends[i].trends[1]
        /\ TsKey(trends[i].trends[1]) = TsKey(trends[i].trends[3])

SeenDoc(c, agent) == JsonLoad(c.seen[agent].data).doc

\* C2: a consolidation that runs while the writer of an agent's store adds
\* or clears, no write failing, reads of every store a complete document,
\* never an empty or partial file, and so returns a report without an error.
C2_ReaderSeesWholeStore ==
    (/\ ret[Manager].op = "consolidate"
     /\ faults = 0
     /\ LET b == files[TrendFile("b")]
        IN  ~b.exists \/ (Complete(b) /\ IsDict(JsonLoad(b.data).doc)))
        => /\ \A a \in Agents :
                  ret[Manager].call.seen[a].exists => Complete(ret[Manager].call.seen[a])
           /\ "error" \notin DOMAIN ret[Manager].val

\* C10: a report of consolidate(D) holds a record of a store it read if and
\* only if the record's timestamp parses and now - timestamp is at most D days
\* (counted in half seconds).
C10_RetainedIffWithinDays ==
    (ret[Manager].op = "consolidate" /\ "error" \notin DOMAIN ret[Manager].val) =>
        LET c == ret[Manager].call
        IN  \A a \in Agents :
                (c.seen[a].exists /\ HasTrends(SeenDoc(c, a))) =>
                    \A k \in 1..Len(SeenDoc(c, a).trends) :
                        LET rec == SeenDoc(c, a).trends[k]
                            p == Strptime(TsKey(rec))
                        IN  (\E j \in 1..Len(ret[Manager].val.trends) :
                                 ret[Manager].val.trends[j] = Tagged(rec, a))
                                <=> /\ p.ok
                                    /\ 2 * (Time(c.h).s - p.t.s) + Time(c.h).sub
                                           <= 2 * c.days * SecondsPerDay

(***************************************************************************)
(* The worked example of consolidation: agent "a" holds records aged 1, 10 *)
(* and 40 days, agent "b" records aged 5 and 20 days, in any store order,  *)
(* and consolidate_trends(30) runs at some time of day 40.                 *)
(***************************************************************************)
ExampleDays == 30

\* Midnight of the day the example runs, in seconds.
ExampleDay == 40 * SecondsPerDay

\* The record of the example that is age days old at midnight.
Aged(age) ==
    [payload |-> "p", timestamp |-> Strftime([s |-> ExampleDay - age * SecondsPerDay, sub |-> 0])]

\* The clock readings of the example: midnight, half a second and a second
\* later, and a second before the next midnight.  The stores hold the
\* records of the example's ages in some order.
InitExample ==
    LET ExampleStores(ages) ==
            {[last_updated |-> Stamp(0), trends |-> [k \in 1..Len(ages) |-> Aged(ages[f[k]])]] :
                f \in Perms(Len(ages))}
    IN  /\ now \in {2 * (ExampleDay - Epoch + off) + sub :
                        off \in {0, 1, SecondsPerDay - 1}, sub \in {0, 1}}
        /\ \E sa \in ExampleStores(<<1, 10, 40>>), sb \in ExampleStores(<<5, 20>>) :
              files = [n \in FileNames |->
                          IF n = TrendFile("a") THEN FileOf(Dump(sa))
                          ELSE IF n = TrendFile("b") THEN FileOf(Dump(sb))
                          ELSE IF n = MemoryDir THEN FileOf(<<>>) ELSE NoFile]
        /\ pc = [i \in Procs |-> IF i = Manager THEN "idle" ELSE "none"]
        /\ trends = [i \in Instances |-> NoDoc]
        /\ context = [i \in Instances |-> NoDoc]
        /\ frame = [i \in Procs |-> NoFrame]
        /\ ret = [i \in Procs |-> NoRet]
        /\ faults = 0

NextExample ==
    \/ ConsolidateTrends(ExampleDays)
    \/ ReadAgent
    \/ Report

SpecExample == InitExample /\ [][NextExample]_vars

\* C11: with agent "a" holding records aged 1, 10 and 40 days and agent "b"
\* records aged 5 and 20 days, the report of consolidate(30) holds exactly
\* the records aged 1, 5, 10 and 20 days, newest first, each tagged with its
\* agent, with trend_count 4 and agent_count 2.
C11_Example ==
    ret[Manager].op = "consolidate" =>
        /\ "error" \notin DOMAIN ret[Manager].val
        /\ ret[Manager].val.trends =
               <<Tagged(Aged(1), "a"), Tagged(Aged(5), "b"),
                 Tagged(Aged(10), "a"), Tagged(Aged(20), "b")>>
        /\ ret[Manager].val.trend_count = 4
        /\ ret[Manager].val.agent_count = 2

\* C11's case: the report is there, made a second before the day ends from
\* stores that do not hold their records newest first, "b" read before "a".
C11_Witness ==
    /\ ret[Manager].op = "consolidate"
    /\ Time(ret[Manager].call.h).s = ExampleDay + SecondsPerDay - 1
    /\ SeenDoc(ret[Manager].call, "a").trends[1] = Aged(40)
    /\ SeenDoc(ret[Manager].call, "b").trends[1] = Aged(20)
    /\ ret[Manager].call.all_trends[1].agent_id = "b"

(***************************************************************************)
(* Consolidation and export over stores that have no writer: every kind of *)
(* store file for the two agents, a memory directory that is there, is     *)
(* missing or cannot be read, and a clock that moves between the steps.    *)
(***************************************************************************)
\* The directory and the trend files before the manager runs.  A missing
\* directory holds no file; a directory that cannot be read may.
ReportDirs ==
    LET EmptyStore == [last_updated |-> Stamp(0), trends |-> <<>>]
        \* A store whose oldest record comes first and whose other two
        \* records have the timestamp that records of TiedStore have.
        MixedStore ==
            [last_updated |-> Stamp(0),
             trends |-> <<[payload |-> "p",
                           timestamp |-> Strftime([s |-> Epoch - SecondsPerDay, sub |-> 0])],
                          [payload |-> "q", timestamp |-> Stamp(0)],
                          [payload |-> "p", timestamp |-> Stamp(0)]>>]
    IN  {[dir |-> FileOf(<<>>), a |-> fa, b |-> fb] :
            fa \in {NoFile, FileOf(Dump(EmptyStore)), FileOf(Dump(TiedStore)),
                    FileOf(Dump([last_updated |-> Stamp(0),
                                 trends |-> <<[payload |-> "q", timestamp |-> Stamp(0)]>>]))},
            fb \in {NoFile, FileOf(Dump(AgedStore)), FileOf(Dump(MixedStore)),
                    FileOf(Dump(ListDoc)), FileOf(Dump(OtherDoc)), CutFile, Unreadable}}
        \cup {[dir |-> NoFile, a |-> NoFile, b |-> NoFile],
              [dir |-> Unreadable, a |-> FileOf(Dump(TiedStore)), b |-> FileOf(Dump(AgedStore))]}

InitReport ==
    /\ now = 0
    /\ \E d \in ReportDirs :
          files = [n \in FileNames |->
                      IF n = TrendFile("a") THEN d.a
                      ELSE IF n = TrendFile("b") THEN d.b
                      ELSE IF n = MemoryDir THEN d.dir ELSE NoFile]
    /\ pc = [i \in Procs |-> IF i = Manager THEN "idle" ELSE "none"]
    /\ trends = [i \in Instances |-> NoDoc]
    /\ context = [i \in Instances |-> NoDoc]
    /\ frame = [i \in Procs |-> NoFrame]
    /\ ret = [i \in Procs |-> NoRet]
    /\ faults = 0

NextReport ==
    \/ Tick
    \/ \E days \in LookbackDays : ConsolidateTrends(days)
    \/ \E days \in LookbackDays : ExportConsolidatedTrends(days)
    \/ ReadAgent
    \/ Report
    \/ ExportWrite

SpecReport == InitReport /\ [][NextReport]_vars

\* The records of xs that carry the agent's id, in the order they have in xs.
RECURSIVE OfAgent(_, _)
OfAgent(xs, agent) ==
    IF xs = <<>> THEN <<>>
    ELSE (IF Head(xs).agent_id = agent THEN <<Head(xs)>> ELSE <<>>) \o OfAgent(Tail(xs), agent)

\* xs is ys with some of its records left out, each tagged with agent.
RECURSIVE IsTaggedSubSeq(_, _, _)
IsTaggedSubSeq(xs, ys, agent) ==
    IF xs = <<>> THEN TRUE
    ELSE IF ys = <<>> THEN FALSE
    ELSE IF Head(xs) = Tagged(Head(ys), agent) /\ IsTaggedSubSeq(Tail(xs), Tail(ys), agent)
         THEN TRUE
    ELSE IsTaggedSubSeq(xs, Tail(ys), agent)

\* The report and the call of the last consolidate_trends, called by the
\* user or by export_consolidated_trends.
LastReport == IF ret[Manager].op = "export" THEN ret[Manager].report ELSE ret[Manager].val

Consolidated == ret[Manager].op \in {"consolidate", "export"}

\* C12: the trends of a report are in non-increasing order of timestamp
\* string, and records of equal timestamp are in the order they were
\* accumulated in: by the order the agents were taken in and, within an
\* agent, by the order of its store.
C12_ReportSortedStable ==
    Consolidated =>
        LET c == ret[Manager].call
            ts == LastReport.trends
            \* The place of agent in the order the call took the ids in.
            PlaceOf(agent) == CHOOSE k \in 1..Len(c.order) : c.order[k] = agent
        IN  /\ \A j, k \in 1..Len(ts) :
                  j < k =>
                      /\ ~StrLess(TsKey(ts[j]), TsKey(ts[k]))
                      /\ TsKey(ts[j]) = TsKey(ts[k]) =>
                             PlaceOf(ts[j].agent_id) <= PlaceOf(ts[k].agent_id)
            /\ \A a \in c.agent_ids :
                  \A t \in {TsKey(ts[j]) : j \in 1..Len(ts)} :
                      IsTaggedSubSeq(SelectSeq(OfAgent(ts, a), LAMBDA x : TsKey(x) = t),
                                     IF c.seen[a].exists /\ HasTrends(SeenDoc(c, a))
                                     THEN SeenDoc(c, a).trends ELSE <<>>, a)

\* C12's case: a report holds records of both agents with one timestamp, the
\* agent taken first being "b", and was accumulated in another order than
\* it is sorted in.
C12_Witness ==
    /\ Consolidated /\ "error" \notin DOMAIN LastReport
    /\ ret[Manager].call.order = <<"b", "a">>
    /\ ret[Manager].call.all_trends # LastReport.trends
    /\ \E j, k \in 1..Len(LastReport.trends) :
          /\ j < k
          /\ TsKey(LastReport.trends[j]) = TsKey(LastReport.trends[k])
          /\ LastReport.trends[j].agent_id = "b" /\ LastReport.trends[k].agent_id = "a"
    /\ \E j, k \in 1..Len(LastReport.trends) :
          /\ j < k
          /\ TsKey(LastReport.trends[j]) = TsKey(LastReport.trends[k])
          /\ LastReport.trends[j].agent_id = LastReport.trends[k].agent_id

\* C13: in every report of consolidate, trend_count is the length of trends
\* and agent_count the number of agents discovered, the agents that
\* contributed no record included.
C13_CountsInEveryReport ==
    Consolidated =>
        /\ "trend_count" \in DOMAIN LastReport
        /\ "agent_count" \in DOMAIN LastReport
        /\ LastReport.trend_count = Len(LastReport.trends)
        /\ LastReport.agent_count = Cardinality(ret[Manager].call.agent_ids)

\* C14: every record of a report carries the id of the agent whose store it
\* was read from, and no step of consolidate or export changes the trend or
\* context file of any agent: no agent_id is written into a store and no
\* stored record is added, removed or altered.
C14_TaggedAndStoresUntouched ==
    /\ [](Consolidated =>
              \A k \in 1..Len(LastReport.trends) :
                  LET rec == LastReport.trends[k]
                      c == ret[Manager].call
                  IN  /\ "agent_id" \in DOMAIN rec
                      /\ rec.agent_id \in c.agent_ids
                      /\ c.seen[rec.agent_id].exists
                      /\ \E j \in 1..Len(SeenDoc(c, rec.agent_id).trends) :
                            /\ rec = Tagged(SeenDoc(c, rec.agent_id).trends[j], rec.agent_id)
                            /\ "agent_id" \notin DOMAIN SeenDoc(c, rec.agent_id).trends[j])
    /\ [][\A a \in Agents : /\ files'[TrendFile(a)] = files[TrendFile(a)]
                            /\ files'[ContextFile(a)] = files[ContextFile(a)]]_vars

\* C14's case: an export has written a report that holds records of both
\* agents, and both stores are on disk.
C14_Witness ==
    /\ ret[Manager].op = "export"
    /\ files[OutputFile].exists
    /\ \E j, k \in 1..Len(LastReport.trends) :
          LastReport.trends[j].agent_id = "a" /\ LastReport.trends[k].agent_id = "b"
    /\ \A a \in Agents : HasTrends(JsonLoad(files[TrendFile(a)].data).doc)

\* C15: a store that is unreadable or corrupt is skipped: the report of
\* consolidate has no error and holds the in-window records of every agent
\* whose store is a valid one.
C15_BadStoreSkipped ==
    (Consolidated /\ files[MemoryDir].exists /\ files[MemoryDir].mode # "none") =>
        /\ "error" \notin DOMAIN LastReport
        /\ \A a \in Agents :
              LET f == files[TrendFile(a)]
              IN  (Complete(f) /\ HasTrends(JsonLoad(f.data).doc)) =>
                      \A j \in 1..Len(JsonLoad(f.data).doc.trends) :
                          LET rec == JsonLoad(f.data).doc.trends[j]
                          IN  Retained(rec, ret[Manager].call.h, ret[Manager].call.days) =>
                                  \E k \in 1..Len(LastReport.trends) :
                                      LastReport.trends[k] = Tagged(rec, a)

\* C16: when the memory directory is missing or cannot be listed, the report
\* of consolidate carries an error field.
C16_UnlistableDirGivesError ==
    (Consolidated /\ ~(files[MemoryDir].exists /\ files[MemoryDir].mode # "none"))
        => "error" \in DOMAIN LastReport

\* C17: after an export that wrote its file, the document read back from the
\* file has a trend_count field equal to the length of its trends, also
\* when the consolidation hit an error.
C17_ExportRoundTrip ==
    (ret[Manager].op = "export" /\ files[OutputFile].exists) =>
        LET back == JsonLoad(files[OutputFile].data)
        IN  /\ back.ok
            /\ "trend_count" \in DOMAIN back.doc
            /\ back.doc.trend_count = Len(back.doc.trends)

(***************************************************************************)
(* Agent ids and file names as strings.  The two characters "_t" stand for *)
(* the suffix "_trends.json" and "_c" for "_context.json"; an agent id is  *)
(* any string of up to MaxIdLen characters, the characters of the suffix   *)
(* among them.  The directory is the set of names of the files it holds.   *)
(***************************************************************************)
MaxIdLen == 3

TrendSuffix == <<"_", "t">>

AgentIdStrings == UNION {[1..n -> {"a", "_", "t"}] : n \in 0..MaxIdLen}

\* f"{agent_id}_trends.json"
TrendFileName(id) == id \o TrendSuffix

\* The name matches the pattern "*_trends.json".
GlobMatches(name) ==
    /\ Len(name) >= Len(TrendSuffix)
    /\ SubSeq(name, Len(name) - Len(TrendSuffix) + 1, Len(name)) = TrendSuffix

\* filename.replace("_trends.json", ""): every occurrence of the suffix is
\* removed, from the left, in one pass.
RECURSIVE Replaced(_)
Replaced(name) ==
    IF Len(name) < Len(TrendSuffix) THEN name
    ELSE IF SubSeq(name, 1, Len(TrendSuffix)) = TrendSuffix
         THEN Replaced(SubSeq(name, Len(TrendSuffix) + 1, Len(name)))
    ELSE <<Head(name)>> \o Replaced(Tail(name))

\* AgentMemory(agent_id = id) is constructed: its two files are there from
\* then on.  files maps the names in the directory to the files.
CreateStore(id) ==
    /\ Cardinality({n \in DOMAIN files : GlobMatches(n)}) < Cardinality(Agents)
    /\ TrendFileName(id) \notin DOMAIN files
    \* f"{agent_id}_context.json" is id \o <<"_", "c">>
    /\ files' = [n \in DOMAIN files \cup {TrendFileName(id), id \o <<"_", "c">>} |->
                    IF n \in DOMAIN files THEN files[n]
                    ELSE IF n = TrendFileName(id) THEN FileOf(Dump(EmptyTrends(now)))
                    ELSE FileOf(Dump(EmptyContext(now)))]
    /\ ret' = [ret EXCEPT ![Manager] = NoRet]
    /\ UNCHANGED <<now, pc, trends, context, frame, faults>>

\* get_all_agent_ids() is called on the names of the directory.
DiscoverAgents ==
    /\ ret' = [ret EXCEPT ![Manager] =
                   [op |-> "ids",
                    val |-> {Replaced(name) : name \in {n \in DOMAIN files : GlobMatches(n)}},
                    names |-> DOMAIN files]]
    /\ UNCHANGED <<now, files, pc, trends, context, frame, faults>>

InitDiscover ==
    /\ now = 0
    /\ files = [n \in {} |-> NoFile]
    /\ pc = [i \in Procs |-> IF i = Manager THEN "idle" ELSE "none"]
    /\ trends = [i \in Instances |-> NoDoc]
    /\ context = [i \in Instances |-> NoDoc]
    /\ frame = [i \in Procs |-> NoFrame]
    /\ ret = [i \in Procs |-> NoRet]
    /\ faults = 0

NextDiscover ==
    \/ \E id \in AgentIdStrings : CreateStore(id)
    \/ DiscoverAgents

SpecDiscover == InitDiscover /\ [][NextDiscover]_vars

\* C18: get_all_agent_ids returns exactly the ids under which the stores of
\* the directory were created, each the name of its trend file without the
\* trailing suffix, so that every id returned names a trend file that exists.
C18_DiscoverGivesCreatedIds ==
    ret[Manager].op = "ids" =>
        /\ ret[Manager].val = {id \in AgentIdStrings : TrendFileName(id) \in ret[Manager].names}
        /\ \A id \in ret[Manager].val : TrendFileName(id) \in ret[Manager].names

(***************************************************************************)
(* GitHubTrendAnalyzer._calculate_score (src/tools/github_tool.py).        *)
(*                                                                         *)
(* A repository is a dict with some of the keys stars, forks, updated_at.  *)
(* updated_at is None or a string; an ISO string is written here as the    *)
(* day and the second of the day, "DDTSSSSS", followed by "Z", by "+" (for *)
(* "+00:00") or by nothing.  A score is kept in hundredths, the recency    *)
(* score in thirtieths.                                                    *)
(***************************************************************************)
Analyzer == "gh"

PyNone == [py |-> "None"]

PyStr(s) == [py |-> "str", s |-> s]

PyInt(n) == [py |-> "int", n |-> n]

\* dict.get(key, default).
Get(d, key, default) == IF key \in DOMAIN d THEN d[key] ELSE default

\* The names bound in the module's namespace when _calculate_score runs: what
\* the import statements and the top-level definitions of the file bind.
ModuleGlobals ==
    {"logging", "Dict", "Any", "Optional", "List", "Type", "requests", "BaseTool",
     "BaseModel", "Field", "config", "logger", "GitHubTrendInput", "GitHubTrendTool",
     "GitHubTrendAnalyzer"}

UtcSuffix == <<"Z">>

UtcOffset == <<"+">>

\* datetime.isoformat() of a whole second.
IsoFormat(t) ==
    Pad(t.s \div SecondsPerDay, DayWidth) \o <<"T">> \o Pad(t.s % SecondsPerDay, SecWidth)

\* str.endswith(suffix).
EndsWith(str, suffix) ==
    /\ Len(str) >= Len(suffix)
    /\ SubSeq(str, Len(str) - Len(suffix) + 1, Len(str)) = suffix

\* datetime.fromisoformat(str): the date and the time of day at their full
\* widths around one separator, then nothing (a naive time) or the offset (an
\* aware one).  [ok |-> FALSE] stands for ValueError.
FromIsoFormat(str) ==
    LET aware == EndsWith(str, UtcOffset)
        body == IF aware THEN SubSeq(str, 1, Len(str) - Len(UtcOffset)) ELSE str
        d == SubSeq(body, 1, DayWidth)
        s == SubSeq(body, DayWidth + 2, Len(body))
    IN  IF /\ Len(body) = DayWidth + 1 + SecWidth
           /\ DigitRun(d) = DayWidth
           /\ DigitRun(s) = SecWidth
           /\ DigitsVal(s) < SecondsPerDay
        THEN [ok |-> TRUE, aware |-> aware,
              t |-> [s |-> DigitsVal(d) * SecondsPerDay + DigitsVal(s), sub |-> 0]]
        ELSE [ok |-> FALSE]

\* days_since_update when the parse fails: 365 * 10.
UnparsedDays == 3650

RecencyWindow == 30

\* The weights of stars and forks in hundredths of a point per unit, and the
\* weight of a full recency score in hundredths: 0.5, 0.3, 0.2 * 100.
StarWeight == 50

ForkWeight == 30

RecencyWeight == 2000

\* round(num / den, 2) of a value given in hundredths as num / den.  The
\* recency term is a whole number of thirds of a hundredth and the other
\* terms are whole hundredths, so no score lies half way between two
\* hundredths and the nearest one is what round gives.
RoundHundredths(num, den) == FloorDiv(2 * num + den, 2 * den)

Max(a, b) == IF a >= b THEN a ELSE b

\* The exception that leaves _calculate_score.
Raised(e) == [raised |-> e, days |-> 0, recency |-> 0, score |-> 0]

\* _calculate_score(repo) at clock reading h.  The try block catches
\* ValueError and TypeError only: the AttributeError of None.endswith and
\* the NameError of a name the module does not bind leave the function, and
\* so does the TypeError of None * 0.5 in the sum, which is after the block.
\* datetime.now(tz) and datetime.now() read the same clock, as UTC and as
\* local time; the machine is taken to run in UTC.
CalculateScore(repo, h) ==
    LET stars == Get(repo, "stars", PyInt(0))
        forks == Get(repo, "forks", PyInt(0))
        \* the default "2000-01-01T00:00:00Z": the first second the date
        \* format can express, in UTC
        updated_at == Get(repo, "updated_at", PyStr(IsoFormat([s |-> 0, sub |-> 0]) \o UtcSuffix))
        updated_at_str ==
            IF EndsWith(updated_at.s, UtcSuffix)
            THEN SubSeq(updated_at.s, 1, Len(updated_at.s) - 1) \o UtcOffset
            ELSE updated_at.s
        updated_date == FromIsoFormat(updated_at_str)
        days_since_update ==
            IF updated_date.ok THEN DeltaDays(Time(h), updated_date.t) ELSE UnparsedDays
        recency == Max(0, RecencyWindow - days_since_update)
    IN  IF updated_at = PyNone THEN Raised("AttributeError")
        ELSE IF "datetime" \notin ModuleGlobals THEN Raised("NameError")
        ELSE IF stars = PyNone \/ forks = PyNone THEN Raised("TypeError")
        ELSE [raised |-> "", days |-> days_since_update, recency |-> recency,
              score |-> RoundHundredths(
                            RecencyWindow * (StarWeight * stars.n + ForkWeight * forks.n)
                                + RecencyWeight * recency,
                            RecencyWindow)]

(***************************************************************************)
(* SpecScore: _calculate_score is called once on a repository.             *)
(***************************************************************************)
MaxAgeDays == 41

\* Midnight of the day the score is computed, in seconds.
ScoreDay == (MaxAgeDays + 4) * SecondsPerDay

\* The repositories scored.  updated_at values: None, a text that is no
\* date, and the ISO strings of the midnights from one day after the day of
\* the score to MaxAgeDays before it and of the second before each, in UTC
\* with either suffix or naive.
Repos ==
    LET UpdatedAts ==
            {PyNone, PyStr(<<"x">>), PyStr(<<>>)}
                \cup {PyStr(IsoFormat([s |-> ScoreDay - age * SecondsPerDay - early, sub |-> 0])
                                \o suffix) :
                         age \in (-1)..MaxAgeDays, early \in {0, 1},
                         suffix \in {UtcSuffix, UtcOffset, <<>>}}
    IN  {[k \in ks |-> [stars |-> s, forks |-> f, updated_at |-> u][k]] :
            s \in {PyInt(n) : n \in {0, 1, 200}}, f \in {PyInt(n) : n \in {0, 1, 50}},
            u \in UpdatedAts,
            ks \in {{"stars", "forks", "updated_at"}, {"stars", "forks"}, {"updated_at"}}}

\* analyze calls self._calculate_score(repo).
Score ==
    /\ pc[Analyzer] = "idle"
    /\ ret' = [ret EXCEPT ![Analyzer] = [op |-> "score", call |-> frame[Analyzer],
                                          at |-> now, val |-> CalculateScore(frame[Analyzer].repo, now)]]
    /\ pc' = [pc EXCEPT ![Analyzer] = "done"]
    /\ UNCHANGED <<now, files, trends, context, frame, faults>>

InitScore ==
    \* midnight, half a second later and half a second before the next midnight
    /\ now \in {2 * (ScoreDay - Epoch) + off : off \in {0, 1, 2 * SecondsPerDay - 1}}
    /\ files = [n \in {} |-> NoFile]
    /\ pc = [i \in {Analyzer} |-> "idle"]
    /\ trends = [i \in {} |-> NoDoc]
    /\ context = [i \in {} |-> NoDoc]
    /\ frame \in {[i \in {Analyzer} |-> [op |-> "score", repo |-> r]] : r \in Repos}
    /\ ret = [i \in {Analyzer} |-> NoRet]
    /\ faults = 0

SpecScore == InitScore /\ [][Score]_vars

\* The repository of the call, its counts, and its update time when
\* updated_at is an ISO string.
ScoredRepo == ret[Analyzer].call.repo

UpdateTime(repo) ==
    IF "updated_at" \in DOMAIN repo /\ repo.updated_at # PyNone
    THEN FromIsoFormat(IF EndsWith(repo.updated_at.s, UtcSuffix)
                       THEN SubSeq(repo.updated_at.s, 1, Len(repo.updated_at.s) - 1) \o UtcOffset
                       ELSE repo.updated_at.s)
    ELSE [ok |-> FALSE]

\* The score the formula gives, in hundredths, for s stars, f forks and an
\* update d whole days ago.
FormulaScore(s, f, d) ==
    RoundHundredths(RecencyWindow * (50 * s + 30 * f) + 2000 * Max(0, RecencyWindow - d),
                    RecencyWindow)

\* C19: a repository with s >= 0 stars, f >= 0 forks and an update d >= 0
\* whole days before now gets the score 0.5*s + 0.3*f + 20*max(0, 30-d)/30
\* rounded to two decimals; 200 stars and 50 forks score 135.0 when updated
\* today and 115.0 when updated 40 days ago.
C19_ScoreFollowsFormula ==
    /\ FormulaScore(200, 50, 0) = 13500
    /\ FormulaScore(200, 50, 40) = 11500
    /\ ret[Analyzer].op = "score" /\ {"stars", "forks"} \subseteq DOMAIN ScoredRepo
           /\ UpdateTime(ScoredRepo).ok
           /\ DeltaDays(Time(ret[Analyzer].at), UpdateTime(ScoredRepo).t) >= 0
       => /\ ret[Analyzer].val.raised = ""
          /\ ret[Analyzer].val.score =
                 FormulaScore(ScoredRepo.stars.n, ScoredRepo.forks.n,
                              DeltaDays(Time(ret[Analyzer].at), UpdateTime(ScoredRepo).t))

\* C20: for every updated_at, a missing one, a text that is no date and a
\* date later than now included, the recency score lies in [0, 1] and the
\* recency term of the score is at most 20: the call returns a score, the
\* recency score in thirtieths is within 0..30, and the score exceeds the
\* stars and forks terms by at most 20.00.
C20_RecencyWithinUnit ==
    ret[Analyzer].op = "score"
           /\ ("updated_at" \in DOMAIN ScoredRepo => ScoredRepo.updated_at # PyNone)
       => /\ ret[Analyzer].val.raised = ""
          /\ ret[Analyzer].val.recency \in 0..RecencyWindow
          /\ ret[Analyzer].val.score
                 - (50 * Get(ScoredRepo, "stars", PyInt(0)).n
                        + 30 * Get(ScoredRepo, "forks", PyInt(0)).n) \in 0..2000

(***************************************************************************)
(* GitHubTrendAnalyzer.analyze (src/tools/github_tool.py).                 *)
(***************************************************************************)
TopN == 5

\* The outcome of scoring the repositories in order: the first exception
\* leaves the loop and analyze, or every repository gets its score.
RECURSIVE ScoreAll(_, _)
ScoreAll(repos, h) ==
    IF repos = <<>> THEN [raised |-> "", scored |-> <<>>]
    ELSE LET rest == ScoreAll(SubSeq(repos, 1, Len(repos) - 1), h)
             last == CalculateScore(repos[Len(repos)], h)
         IN  IF rest.raised # "" THEN rest
             ELSE IF last.raised # "" THEN [raised |-> last.raised, scored |-> <<>>]
             ELSE [raised |-> "",
                   scored |-> Append(rest.scored,
                                     [repo |-> repos[Len(repos)], score |-> last.score])]

\* sorted(scored_repos, key=score, reverse=True) is stable: an entry goes
\* behind every entry whose score is not smaller.
RECURSIVE InsertByScore(_, _)
InsertByScore(x, sorted) ==
    IF sorted = <<>> THEN <<x>>
    ELSE IF Head(sorted).score >= x.score THEN <<Head(sorted)>> \o InsertByScore(x, Tail(sorted))
    ELSE <<x>> \o sorted

RECURSIVE SortByScore(_)
SortByScore(scored) ==
    IF scored = <<>> THEN <<>>
    ELSE InsertByScore(scored[Len(scored)], SortByScore(SubSeq(scored, 1, Len(scored) - 1)))

\* analyze(repos) at clock reading h.
Analyze(repos, h) ==
    LET all == ScoreAll(repos, h)
        \* language_counts: a language that is None or empty is not counted
        \* ("" stands for both).
        langs == {Get(repos[i], "language", "") : i \in 1..Len(repos)} \ {""}
        language_counts ==
            [l \in langs |-> Cardinality({i \in 1..Len(repos) : Get(repos[i], "language", "") = l})]
        sorted_repos == SortByScore(all.scored)
        top_repositories == SubSeq(sorted_repos, 1, IF Len(sorted_repos) < TopN
                                                    THEN Len(sorted_repos) ELSE TopN)
    IN  IF repos = <<>> THEN [kind |-> "error"]
        ELSE IF all.raised # "" THEN [kind |-> "raised", raised |-> all.raised]
        ELSE [kind |-> "summary",
              total_repositories_analyzed |-> Len(repos),
              top_repositories |->
                  [i \in 1..Len(top_repositories) |->
                      [name |-> Get(top_repositories[i].repo, "full_name", PyNone),
                       url |-> Get(top_repositories[i].repo, "url", PyNone),
                       score |-> top_repositories[i].score]],
              language_distribution |-> language_counts]

(***************************************************************************)
(* SpecAnalyze: analyze is called once on a batch of repositories.  A      *)
(* batch is up to two repositories of any kind, or up to MaxBatch          *)
(* repositories of three kinds, each named by its place in the batch.      *)
(***************************************************************************)
MaxBatch == 6

\* The ISO string of the midnight age days before the day of the score.
UpdatedAgo(age) == PyStr(IsoFormat([s |-> ScoreDay - age * SecondsPerDay, sub |-> 0]) \o UtcSuffix)

\* The batches analyze is called on.  The repository fields of _run: stars
\* and forks are numbers or None, updated_at a date, None or (from another
\* producer) no date; analyze also accepts records without a key.  The
\* repository at place i has the name of its place.
Batches ==
    LET RankRepos ==
            {[k \in ks |-> [stars |-> s, forks |-> PyInt(0), updated_at |-> u, language |-> l][k]] :
                s \in {PyInt(0), PyInt(1), PyNone},
                u \in {UpdatedAgo(-1), UpdatedAgo(0), UpdatedAgo(1), UpdatedAgo(31), UpdatedAgo(40),
                       PyNone, PyStr(<<"x">>)},
                l \in {"", "py"},
                ks \in {{"stars", "forks", "updated_at", "language"}, {"forks", "updated_at"},
                        {"stars", "language"}}}
        TieRepos ==
            {[stars |-> PyInt(1), forks |-> PyInt(0), updated_at |-> UpdatedAgo(0), language |-> "py"],
             [stars |-> PyInt(0), forks |-> PyInt(0), updated_at |-> UpdatedAgo(0), language |-> ""],
             [stars |-> PyNone, forks |-> PyInt(0), updated_at |-> UpdatedAgo(0), language |-> "py"]}
        SeqsUpTo(S, n) == UNION {[1..k -> S] : k \in 0..n}
        Named(r, i) ==
            [k \in DOMAIN r \cup {"full_name"} |->
                IF k = "full_name" THEN PyStr(Pad(i, DayWidth)) ELSE r[k]]
    IN  {[i \in 1..Len(b) |-> Named(b[i], i)] :
            b \in SeqsUpTo(RankRepos, 2) \cup SeqsUpTo(TieRepos, MaxBatch)}

\* analyze(repos) is called.
AnalyzeCall ==
    /\ pc[Analyzer] = "idle"
    /\ ret' = [ret EXCEPT ![Analyzer] =
                   [op |-> "analyze", call |-> frame[Analyzer], at |-> now,
                    scored |-> ScoreAll(frame[Analyzer].repos, now),
                    val |-> Analyze(frame[Analyzer].repos, now)]]
    /\ pc' = [pc EXCEPT ![Analyzer] = "done"]
    /\ UNCHANGED <<now, files, trends, context, frame, faults>>

InitAnalyze ==
    \* midnight, half a second later and half a second before the next midnight
    /\ now \in {2 * (ScoreDay - Epoch) + off : off \in {0, 1, 2 * SecondsPerDay - 1}}
    /\ files = [n \in {} |-> NoFile]
    /\ pc = [i \in {Analyzer} |-> "idle"]
    /\ trends = [i \in {} |-> NoDoc]
    /\ context = [i \in {} |-> NoDoc]
    /\ frame \in {[i \in {Analyzer} |-> [op |-> "analyze", repos |-> b]] : b \in Batches}
    /\ ret = [i \in {Analyzer} |-> NoRet]
    /\ faults = 0

SpecAnalyze == InitAnalyze /\ [][AnalyzeCall]_vars

\* C21: of two repositories that differ in stars only, the one with more
\* stars gets the strictly higher score; of two that differ in the update
\* date only, the one updated later gets a score at least as high, and the
\* two scores are equal when both updates are more than 30 days old.
C21_ScoreMonotone ==
    (ret[Analyzer].op = "analyze" /\ Len(ret[Analyzer].call.repos) = 2) =>
        LET a == ret[Analyzer].call.repos[1]
            b == ret[Analyzer].call.repos[2]
            scored == ret[Analyzer].scored
            \* The two have the same keys and differ at most in key (and name).
            SameExcept(key) ==
                /\ DOMAIN a = DOMAIN b
                /\ \A k \in DOMAIN a \ {key, "full_name"} : a[k] = b[k]
            HasInt(repo, key) == key \in DOMAIN repo /\ repo[key] # PyNone
            \* Whole days from the update of the repository to the call.
            DaysSince(repo) == DeltaDays(Time(ret[Analyzer].at), UpdateTime(repo).t)
        IN  /\ /\ SameExcept("stars") /\ HasInt(a, "stars") /\ HasInt(b, "stars")
               /\ "updated_at" \in DOMAIN a => a.updated_at # PyNone
               /\ "forks" \in DOMAIN a => a.forks # PyNone
               /\ a.stars.n > b.stars.n
               => /\ scored.raised = ""
                  /\ scored.scored[1].score > scored.scored[2].score
            /\ /\ SameExcept("updated_at")
               /\ UpdateTime(a).ok /\ UpdateTime(b).ok
               /\ "stars" \in DOMAIN a => a.stars # PyNone
               /\ "forks" \in DOMAIN a => a.forks # PyNone
               /\ UpdateTime(a).t.s >= UpdateTime(b).t.s
               => /\ scored.raised = ""
                  /\ scored.scored[1].score >= scored.scored[2].score
                  /\ DaysSince(a) > RecencyWindow /\ DaysSince(b) > RecencyWindow
                         => scored.scored[1].score = scored.scored[2].score

\* C22: scoring a batch never aborts on a malformed item: analyze returns
\* its summary for every non-empty batch, and every item has been scored,
\* with 0 for stars or forks that are absent or null and a recency term of 0
\* for an updated_at that is absent, null or unparsable.
C22_MalformedItemsAreScored ==
    (ret[Analyzer].op = "analyze" /\ ret[Analyzer].call.repos # <<>>) =>
        LET batch == ret[Analyzer].call.repos
            \* The number under key, 0 when the key is absent or its value None.
            NumberOr0(repo, key) ==
                IF key \in DOMAIN repo /\ repo[key] # PyNone THEN repo[key].n ELSE 0
            \* The score of an item when absent and null counts are read as 0
            \* and an absent, null or unparsable date as the far past.
            LenientScore(repo) ==
                FormulaScore(NumberOr0(repo, "stars"), NumberOr0(repo, "forks"),
                             IF UpdateTime(repo).ok
                             THEN DeltaDays(Time(ret[Analyzer].at), UpdateTime(repo).t)
                             ELSE UnparsedDays)
        IN  /\ ret[Analyzer].val.kind = "summary"
            /\ ret[Analyzer].scored.raised = ""
            /\ Len(ret[Analyzer].scored.scored) = Len(batch)
            /\ \A i \in 1..Len(batch) : ret[Analyzer].scored.scored[i].score = LenientScore(batch[i])

\* C23: for a batch of well-formed repositories analyze returns a ranking:
\* top_repositories has at most 5 entries and as many as the batch allows,
\* each with the score of the repository it names, scores never increase
\* along it, entries of equal score are in input order, no repository left
\* out scores higher than one that is in, and the input batch is unchanged.
C23_RankingStableDescending ==
    LET batch == ret[Analyzer].call.repos
        \* Every count of the item is a number and its updated_at, if any, a string.
        WellFormed(repo) ==
            /\ \A k \in {"stars", "forks"} \cap DOMAIN repo : repo[k] # PyNone
            /\ "updated_at" \in DOMAIN repo => repo.updated_at # PyNone
        \* The place in the batch of the repository an entry names.
        PlaceOfName(entry) == DigitsVal(entry.name.s)
    IN  (/\ ret[Analyzer].op = "analyze"
         /\ batch # <<>>
         /\ \A i \in 1..Len(batch) : WellFormed(batch[i])) =>
            /\ ret[Analyzer].val.kind = "summary"
            /\ LET top == ret[Analyzer].val.top_repositories
                   scored == ret[Analyzer].scored.scored
                   places == {PlaceOfName(top[i]) : i \in 1..Len(top)}
               IN  /\ Len(top) <= 5
                   /\ Len(top) = IF Len(batch) < 5 THEN Len(batch) ELSE 5
                   /\ \A i \in 1..Len(top) : top[i].score = scored[PlaceOfName(top[i])].score
                   /\ \A i \in 1..(Len(top) - 1) :
                          \/ top[i].score > top[i + 1].score
                          \/ /\ top[i].score = top[i + 1].score
                             /\ PlaceOfName(top[i]) < PlaceOfName(top[i + 1])
                   /\ \A p \in (1..Len(batch)) \ places :
                          \A i \in 1..Len(top) :
                              \/ scored[p].score < top[i].score
                              \/ scored[p].score = top[i].score /\ PlaceOfName(top[i]) < p
            /\ frame[Analyzer].repos = batch

(***************************************************************************)
(* GitHubTrendAnalyzer.collect_data (src/tools/github_tool.py).            *)
(*                                                                         *)
(* GitHubTrendTool._run answers a query with a list: the repositories      *)
(* found, the one-entry placeholder "No results found.", or one error      *)
(* entry.  What GitHub answers is the environment's choice: the query sent *)
(* holds the tag, the sort order and the page size, and no date.           *)
(***************************************************************************)
MaxTags == 2

MaxResults == 2

MaxRepos == 5

\* self.tags: k tags, named by their place.
TagList(k) == [i \in 1..k |-> Pad(i, DayWidth)]

\* The lists _run can return for a query: the placeholder, an error entry,
\* or the repo_details of the repositories found, each updated and created
\* some days ago.
RunReplies ==
    LET RepoItem(updated, created) ==
            [source |-> "github", updated_at |-> UpdatedAgo(updated),
             created_at |-> UpdatedAgo(created)]
    IN  {<<[message |-> "No results found."]>>,
         <<[error |-> "An error occurred during GitHub search"]>>}
            \cup UNION {[1..n -> {RepoItem(0, 1), RepoItem(40, 40)}] : n \in 1..MaxResults}

\* collect_data(days, max_repos) is called on an analyzer with k tags.
CollectData(k, days, max_repos) ==
    /\ pc[Analyzer] = "idle"
    /\ ret[Analyzer] = NoRet
    /\ frame' = [frame EXCEPT ![Analyzer] =
                     [op |-> "collect", tags |-> TagList(k), days |-> days,
                      max_repos |-> max_repos,
                      repos_per_tag |-> IF k # 0 THEN max_repos \div k ELSE max_repos,
                      todo |-> 1, all_repos |-> <<>>, queries |-> <<>>]]
    /\ pc' = [pc EXCEPT ![Analyzer] = "tags"]
    /\ UNCHANGED <<now, files, trends, context, ret, faults>>

\* One round of the loop over self.tags: the query for the tag and the three
\* branches on its answer.  The first branch takes every list whose first
\* entry has no "error" key.
SearchTag ==
    /\ pc[Analyzer] = "tags"
    /\ frame[Analyzer].todo <= Len(frame[Analyzer].tags)
    /\ \E repos \in RunReplies :
          LET fr == frame[Analyzer]
              taken == IF "error" \notin DOMAIN repos[1]
                       THEN SubSeq(repos, 1, IF fr.repos_per_tag < Len(repos)
                                             THEN fr.repos_per_tag ELSE Len(repos))
                       ELSE <<>>
          IN  frame' = [frame EXCEPT ![Analyzer] =
                            [fr EXCEPT !.todo = fr.todo + 1,
                                       !.all_repos = fr.all_repos \o taken,
                                       !.queries = Append(fr.queries,
                                                          [query |-> fr.tags[fr.todo],
                                                           repos |-> repos, taken |-> taken])]]
    /\ UNCHANGED <<now, files, pc, trends, context, ret, faults>>

\* The loop is over: collect_data returns all_repos.
CollectReturn ==
    /\ pc[Analyzer] = "tags"
    /\ frame[Analyzer].todo > Len(frame[Analyzer].tags)
    /\ ret' = [ret EXCEPT ![Analyzer] =
                   [op |-> "collect", call |-> frame[Analyzer], at |-> now,
                    val |-> frame[Analyzer].all_repos]]
    /\ pc' = [pc EXCEPT ![Analyzer] = "idle"]
    /\ frame' = [frame EXCEPT ![Analyzer] = NoFrame]
    /\ UNCHANGED <<now, files, trends, context, faults>>

(***************************************************************************)
(* ArxivSearchTool._run and ArxivTrendAnalyzer.get_recent_papers           *)
(* (src/tools/arxiv_tool.py).                                              *)
(*                                                                         *)
(* What arxiv.Search yields is the environment's choice: at most           *)
(* max_results papers, or an exception.  A paper is its published time and *)
(* whether that datetime carries a time zone.                              *)
(***************************************************************************)
Papers == "ax"

\* len(config.ARXIV_CATEGORIES).
ConfigCategories == 6

\* What search.results() can do for a query with the given max_results.
SearchResults(max_results) ==
    LET Paper(age, aware) ==
            [published |-> [s |-> ScoreDay - age * SecondsPerDay, sub |-> 0], aware |-> aware]
        PaperKinds == {Paper(0, FALSE), Paper(1, FALSE), Paper(40, FALSE), Paper(0, TRUE)}
    IN  {[fails |-> TRUE, papers |-> <<>>]} \cup
        {[fails |-> FALSE, papers |-> ps] :
            ps \in UNION {[1..n -> PaperKinds] :
                             n \in 0..(IF max_results < MaxResults THEN max_results ELSE MaxResults)}}

\* paper_date < cutoff_date, for the naive datetime t and
\* cutoff_date = datetime.now() - timedelta(days=time_period_days).
BeforeCutoff(t, h, days) ==
    LET cutoff_date == [s |-> Time(h).s - days * SecondsPerDay, sub |-> Time(h).sub]
    IN  t.s < cutoff_date.s \/ (t.s = cutoff_date.s /\ t.sub < cutoff_date.sub)

\* The paper dicts of the loop over search.results(): the entry and its
\* published date in "%Y-%m-%d", for every paper that is not skipped.
RECURSIVE KeptPapers(_, _, _)
KeptPapers(papers, days, h) ==
    IF papers = <<>> THEN <<>>
    ELSE IF days > 0 /\ BeforeCutoff(Head(papers).published, h, days)
         THEN KeptPapers(Tail(papers), days, h)
         ELSE <<[id |-> Head(papers),
                 published |-> Pad(Head(papers).published.s \div SecondsPerDay, DayWidth),
                 source |-> "arxiv"]>> \o KeptPapers(Tail(papers), days, h)

\* _run(query, max_results, time_period_days, categories) at clock reading h,
\* for what the search yields.  Comparing a datetime that carries a time
\* zone with the naive cutoff raises TypeError, and any exception of the
\* try block makes _run return the error dict instead of a list (is_list
\* is what isinstance(papers, list) gives).
ArxivRun(found, days, h) ==
    IF found.fails \/ (days > 0 /\ \E i \in 1..Len(found.papers) : found.papers[i].aware)
    THEN [is_list |-> FALSE, error |-> "Error during ArXiv search"]
    ELSE [is_list |-> TRUE, items |-> KeptPapers(found.papers, days, h)]

\* get_recent_papers(days, max_papers) is called on an analyzer built with k
\* categories; an empty list makes __init__ take config.ARXIV_CATEGORIES.
GetRecentPapers(k, days, max_papers) ==
    /\ pc[Papers] = "idle"
    /\ ret[Papers] = NoRet
    /\ frame' = [frame EXCEPT ![Papers] =
                     [op |-> "papers",
                      categories |-> TagList(IF k = 0 THEN ConfigCategories ELSE k),
                      given |-> k, days |-> days, max_papers |-> max_papers,
                      todo |-> 1, all_papers |-> <<>>, queries |-> <<>>]]
    /\ pc' = [pc EXCEPT ![Papers] = "categories"]
    /\ UNCHANGED <<now, files, trends, context, ret, faults>>

\* One round of the loop over self.categories: the query, the extension of
\* all_papers when the answer is a list, and time.sleep(1).
SearchCategory ==
    /\ pc[Papers] = "categories"
    /\ frame[Papers].todo <= Len(frame[Papers].categories)
    /\ LET fr == frame[Papers]
           max_results == fr.max_papers \div Len(fr.categories)
       IN  \E found \in SearchResults(max_results) :
              LET papers == ArxivRun(found, fr.days, now)
              IN  frame' = [frame EXCEPT ![Papers] =
                                [fr EXCEPT !.todo = fr.todo + 1,
                                           !.all_papers = IF papers.is_list
                                                          THEN fr.all_papers \o papers.items
                                                          ELSE fr.all_papers,
                                           !.queries = Append(fr.queries,
                                                              [query |-> fr.categories[fr.todo],
                                                               max_results |-> max_results,
                                                               at |-> now,
                                                               taken |-> IF papers.is_list
                                                                         THEN papers.items ELSE <<>>])]]
    /\ now' = now + 2
    /\ UNCHANGED <<files, pc, trends, context, ret, faults>>

\* The loop is over: get_recent_papers returns all_papers.
PapersReturn ==
    /\ pc[Papers] = "categories"
    /\ frame[Papers].todo > Len(frame[Papers].categories)
    /\ ret' = [ret EXCEPT ![Papers] =
                   [op |-> "papers", call |-> frame[Papers], at |-> now,
                    val |-> frame[Papers].all_papers]]
    /\ pc' = [pc EXCEPT ![Papers] = "idle"]
    /\ frame' = [frame EXCEPT ![Papers] = NoFrame]
    /\ UNCHANGED <<now, files, trends, context, faults>>

(***************************************************************************)
(* SpecCollect: one collection call, of repositories or of papers.         *)
(***************************************************************************)
Collectors == {Analyzer, Papers}

InitCollect ==
    /\ now = 2 * (ScoreDay - Epoch)
    /\ files = [n \in {} |-> NoFile]
    /\ pc \in {[i \in Collectors |-> IF i = c THEN "idle" ELSE "none"] : c \in Collectors}
    /\ trends = [i \in {} |-> NoDoc]
    /\ context = [i \in {} |-> NoDoc]
    /\ frame = [i \in Collectors |-> NoFrame]
    /\ ret = [i \in Collectors |-> NoRet]
    /\ faults = 0

NextCollect ==
    \/ \E k \in 0..MaxTags, days \in {0, 1, 30}, max_repos \in 0..MaxRepos :
          CollectData(k, days, max_repos)
    \/ SearchTag
    \/ CollectReturn
    \/ \E k \in 0..MaxTags, days \in {0, 1, 30}, max_papers \in 0..MaxRepos :
          GetRecentPapers(k, days, max_papers)
    \/ SearchCategory
    \/ PapersReturn

SpecCollect == InitCollect /\ [][NextCollect]_vars

\* C24: with k >= 1 tags and the cap max_total every tag's query takes at
\* most floor(max_total / k) items; with no tag, one query is issued and its
\* cap is max_total.  For repositories and for papers alike.
C24_CapPerTagAndOneQueryWithoutTags ==
    /\ ret[Analyzer].op = "collect" =>
          LET call == ret[Analyzer].call
              k == Len(call.tags)
          IN  /\ k >= 1 => \A i \in 1..Len(call.queries) :
                               Len(call.queries[i].taken) <= call.max_repos \div k
              /\ k = 0 => Len(call.queries) = 1
    /\ ret[Papers].op = "papers" =>
          LET call == ret[Papers].call
          IN  /\ call.given >= 1 =>
                    \A i \in 1..Len(call.queries) :
                        /\ call.queries[i].max_results = call.max_papers \div call.given
                        /\ Len(call.queries[i].taken) <= call.max_papers \div call.given
              /\ call.given = 0 =>
                    /\ Len(call.queries) = 1
                    /\ call.queries[1].max_results = call.max_papers

\* C25: every item a collection call with lookback D returns is within the
\* window, now - date_field <= D days: a repository of collect_data(days=D)
\* by its updated_at or its created_at, a paper of _run(time_period_days=D)
\* by its published time at the time of that call.
C25_CollectedWithinLookback ==
    /\ ret[Analyzer].op = "collect" =>
          \A i \in 1..Len(ret[Analyzer].val) :
              LET item == ret[Analyzer].val[i]
              IN  "updated_at" \in DOMAIN item =>
                      \/ ~BeforeCutoff(UpdateTime(item).t, ret[Analyzer].at, ret[Analyzer].call.days)
                      \/ ~BeforeCutoff(FromIsoFormat(SubSeq(item.created_at.s, 1,
                                                            Len(item.created_at.s) - 1) \o UtcOffset).t,
                                      ret[Analyzer].at, ret[Analyzer].call.days)
    /\ ret[Papers].op = "papers" =>
          \A q \in 1..Len(ret[Papers].call.queries) :
              \A i \in 1..Len(ret[Papers].call.queries[q].taken) :
                  ~BeforeCutoff(ret[Papers].call.queries[q].taken[i].id.published,
                                ret[Papers].call.queries[q].at, ret[Papers].call.days)

\* C30: collect_data returns repository records only: a tag whose search
\* gave the "No results found." placeholder or an error entry adds nothing,
\* and the list is never longer than max_repos.
C30_OnlyRepositoriesCollected ==
    ret[Analyzer].op = "collect" =>
        LET call == ret[Analyzer].call
        IN  /\ \A i \in 1..Len(ret[Analyzer].val) :
                   /\ "message" \notin DOMAIN ret[Analyzer].val[i]
                   /\ "error" \notin DOMAIN ret[Analyzer].val[i]
            /\ \A i \in 1..Len(call.queries) :
                   ("message" \in DOMAIN call.queries[i].repos[1]
                    \/ "error" \in DOMAIN call.queries[i].repos[1]) => call.queries[i].taken = <<>>
            /\ Len(ret[Analyzer].val) <= call.max_repos

(***************************************************************************)
(* Properties of the store's failure handling                              *)
(***************************************************************************)
\* C26: no operation of the store lets an exception out, whatever the
\* backing files hold: a load, add_trend, update_user_preference,
\* update_session_data and clear_memory end with a boolean, and
\* get_user_preferences ends with a mapping, not with an exception.
C26_NoExceptionLeavesTheStore ==
    \A i \in Instances :
        /\ ret[i].op \in {"load", "init", "add", "pref", "sess", "clear"} => ret[i].val \in BOOLEAN
        /\ ret[i].op = "prefs" => ret[i].val.raised = ""

\* C27: an add_trend that returns False leaves self.trends as it was; an
\* add_trend of a serialisable record to a usable store, with no write
\* failing, returns True; and an add_trend that returns True leaves in the
\* file the records the store held before the call followed by the new one,
\* so that the file holds the accepted records in call order and no other.
C27_RejectedRecordNotRetained ==
    \A i \in Instances :
        ret[i].op = "add" =>
            /\ ~ret[i].val => trends[i] = ret[i].call.pre_trends
            /\ (/\ HasTrends(ret[i].call.pre_trends)
                /\ ret[i].call.arg.payload # NonSerial
                /\ ret[i].call.pre_file.mode = "rw"
                /\ faults = 0) => ret[i].val
            /\ (ret[i].val /\ HasTrends(ret[i].call.pre_trends)) =>
                   OnDisk(i).trends = Append(ret[i].call.pre_trends.trends,
                                             Stamped(ret[i].call.arg, ret[i].call.h))

(***************************************************************************)
(* SpecReopen: the memory of an agent is opened and cleared, its saves     *)
(* failing at any write or on a file that cannot be written, and the       *)
(* agent's memory is then opened again.                                    *)
(***************************************************************************)
Reopened == "m2"

InitReopen ==
    Start({FileOf(Dump(TiedStore)), ReadOnly(Dump(TiedStore))},
          {FileOf(Dump(ValidContext)), ReadOnly(Dump(ValidContext)), FileOf(Dump(ListDoc))})

NextReopen ==
    \/ LoadTrends(Primary)
    \/ LoadContext(Primary)
    \/ \E i \in Instances : SaveOpen(i) \/ WriteChunk(i)
    \/ WriteFail(Primary)
    \* clear_memory is called before the memory is opened again
    \/ \E keep \in BOOLEAN : pc[Reopened] = "none" /\ ClearMemory(Primary, keep)
    \* AgentMemory(agent_id) is constructed again once clear_memory has returned
    \/ ret[Primary].op = "clear" /\ LoadTrends(Reopened)
    \/ LoadContext(Reopened)

SpecReopen == InitReopen /\ [][NextReopen]_vars

\* C28: when clear_memory returned True, an AgentMemory opened on the agent
\* afterwards has no trends and no session data; when it returned False,
\* self.trends and self.context (session_data and user_preferences) are what
\* they were before the call.
C28_ClearIsPersistedOrUndone ==
    ret[Primary].op = "clear" =>
        /\ (ret[Primary].val /\ pc[Reopened] = "idle") =>
               /\ HasTrends(trends[Reopened]) /\ trends[Reopened].trends = <<>>
               /\ IsDict(context[Reopened]) /\ context[Reopened].session_data = EmptyMap
        /\ ~ret[Primary].val =>
               /\ trends[Primary] = ret[Primary].call.pre_trends
               /\ context[Primary] = ret[Primary].call.pre_context

(***************************************************************************)
(* SpecShared: two AgentMemory are opened on the same agent and add to its *)
(* store in turn; a call starts only when no other call is in progress,    *)
(* and no write fails.                                                     *)
(***************************************************************************)
InitShared ==
    Start({NoFile, FileOf(Dump([last_updated |-> Stamp(0), trends |-> <<[payload |-> "p"]>>]))},
          {FileOf(Dump(ValidContext))})

NextShared ==
    \E i \in Instances :
        \/ Quiet(i) /\ LoadTrends(i)
        \/ Quiet(i) /\ LoadContext(i)
        \/ \E rec \in {[payload |-> "p"], [payload |-> "q", timestamp |-> Stamp(0)]} :
              Quiet(i) /\ AddTrend(i, rec, 0)
        \/ SaveOpen(i)
        \/ WriteChunk(i)

SpecShared == InitShared /\ [][NextShared]_vars

\* C29: with two instances on one agent whose calls never overlap, the
\* record of every add_trend that returned True is in the trend file once
\* the calls are over, whichever instance wrote the file last.
C29_NoAcceptedRecordLost ==
    (\A i \in Instances : pc[i] \in {"none", "ctx", "idle"}) =>
        \A i \in Instances :
            (ret[i].op = "add" /\ ret[i].val) =>
                \E k \in 1..Len(OnDisk(i).trends) :
                    OnDisk(i).trends[k] = Stamped(ret[i].call.arg, ret[i].call.h)
====
